---- MODULE Spec2Model ----
(***************************************************************************)
(* A model of the safari park simulation (henriktoth/safarimanager): the   *)
(* Map (tile grid, agent roster, waiting queues, road planning, visibility *)
(* queries and the visibility cache), the Jeep tour cycle and the          *)
(* SafariModel facade (open flag, purchases).                              *)
(*                                                                         *)
(* The program state is one set of variables.  Each specification below   *)
(* exercises one slice of it and keeps the other variables at their value *)
(* after construction:                                                     *)
(*   SpecRoads  tile grid, planRoads, the isOpen setter, buyTile           *)
(*   SpecVis    getVisibleTiles / getVisibleSprites as functions of the    *)
(*              roster                                                     *)
(*   SpecCache  the visibility cache: requests, TTL pruning in tick        *)
(*   SpecShop   the purchase operations of SafariModel                     *)
(*   Spec       Map.tick: roster iteration, removals, jeep tours, dispatch *)
(*   SpecDay    SafariModel.tick: the clock, the daily goal and losing     *)
(*              checks                                                     *)
(*   SpecMove   the integration of Sprite.move and Jeep.act                *)
(*   SpecAnimal Animal.act of one animal on a strip of tiles               *)
(*   SpecHunt   Ranger.act and Poacher.act: wandering, chases, shots       *)
(*   SpecWorld  the slices that move agents, side by side                  *)
(*                                                                         *)
(* Coordinates are integers.  Where the program uses fractional positions *)
(* or times the model counts in fixed fractions of a unit (Half,           *)
(* TimeUnit).                                                              *)
(***************************************************************************)
EXTENDS Integers, Sequences, FiniteSets, TLC

VARIABLES
  tiles,            \* Map._tiles: cell -> tile kind
  paths,            \* Map._paths: sequence of paths, a path is a sequence of cells
  isOpen,           \* SafariModel._isOpen
  sprites,          \* Map._sprites: the roster, a sequence of agent ids
  attr,             \* the fields of every agent created so far: id -> record
  cache,            \* Map._visiblesCache: sequence of entries
  cacheAge,         \* history: key -> time since the key was last requested
  waitingJeeps,     \* Map._waitingJeeps
  waitingVisitors,  \* Map._waitingVisitors
  totalVisitorCount,\* Map._totalVisitorCount
  balance,          \* SafariModel._balance
  groups,           \* Map._groups
  game,             \* the clock and goal fields of SafariModel, a record
  jsonCache,        \* jsonCache of utils/load: record name -> the object cached
  fetches,          \* history: record name -> number of fetch() calls made for it
  loads,            \* the asynchronous calls that were started: id -> record
  last              \* history: the last operation and what it observed

roadVars == <<tiles, paths, isOpen>>
agentVars == <<sprites, attr>>
cacheVars == <<cache, cacheAge>>
tourVars == <<waitingJeeps, waitingVisitors, totalVisitorCount>>
shopVars == <<balance, groups>>
loadVars == <<jsonCache, fetches, loads>>
restVars == <<game, loadVars>>
vars == <<tiles, paths, isOpen, sprites, attr, cache, cacheAge,
          waitingJeeps, waitingVisitors, totalVisitorCount, balance, groups, game,
          jsonCache, fetches, loads, last>>

\* The slices a specification does not exercise stay as constructed.
IdleAgents == sprites = <<>> /\ attr = <<>>
IdleCache == cache = <<>> /\ cacheAge = <<>>
IdleTours == waitingJeeps = <<>> /\ waitingVisitors = <<>> /\ totalVisitorCount = 0

\* SafariModel constructor: `_balance = 10000`, counted in the units of Price.
StartBalance == 3
IdleShop == balance = StartBalance /\ groups = <<>>

\* Goal constructor: every threshold is 0 until loadData has run.
UnloadedGoal == [balance |-> 0, herbivores |-> 0, carnivores |-> 0, visitors |-> 0,
                 forDays |-> 0]

\* SafariModel constructor: _time, _daysGoalMet, _lastGoalCheckDay, _goal,
\* _rating.  processed counts the daily processings done so far.
StartRating == 3
NewGame == [time |-> 0, daysGoalMet |-> 0, lastGoalCheckDay |-> -1,
            goal |-> UnloadedGoal, processed |-> 0, rating |-> StartRating]
IdleGame == game = NewGame

\* Nothing fetched, nothing cached and no asynchronous call under way.
IdleLoads == jsonCache = <<>> /\ fetches = <<>> /\ loads = <<>>

NoOp == [op |-> "none"]

(***************************************************************************)
(* Sequence helpers                                                        *)
(***************************************************************************)
Range(s) == {s[i] : i \in 1..Len(s)}

RECURSIVE Concat(_)
Concat(ss) == IF ss = <<>> THEN <<>> ELSE Head(ss) \o Concat(Tail(ss))

(***************************************************************************)
(* Tile grid and road planning (src/src/map.ts)                            *)
(***************************************************************************)
\* Grid size of the road-planning slice.
RoadW == 3
RoadH == 2

Cells(w, h) == (0..(w - 1)) \X (0..(h - 1))

EntranceCell == <<0, 0>>
ExitCell(w, h) == <<w - 1, h - 1>>

\* Map.loadMap: every cell sand, then the entrance at (0,0) and the exit at
\* (w-1,h-1); the exit is written last.
LoadedTiles(w, h) ==
  [c \in Cells(w, h) |->
     IF c = ExitCell(w, h) THEN "exit"
     ELSE IF c = EntranceCell THEN "entrance"
     ELSE "sand"]

IsRoadLike(kind) == kind \in {"road", "entrance", "exit"}

\* The offsets Map.neighbors visits, in its loop order: dx = -1..1, dy = -1..1,
\* kept when |dx| # |dy|.
NeighborOffsets == << <<-1, 0>>, <<0, -1>>, <<0, 1>>, <<1, 0>> >>

\* The same loops without the |dx| # |dy| test: all eight neighbours and the
\* cell itself.
NeighborOffsetsAll ==
  << <<-1, -1>>, <<-1, 0>>, <<-1, 1>>, <<0, -1>>, <<0, 0>>, <<0, 1>>,
     <<1, -1>>, <<1, 0>>, <<1, 1>> >>

NeighborsWith(offs, t, w, h, c) ==
  LET cand == [i \in 1..Len(offs) |-> <<c[1] + offs[i][1], c[2] + offs[i][2]>>]
      ok(n) == /\ n[1] >= 0 /\ n[1] < w /\ n[2] >= 0 /\ n[2] < h
               /\ IsRoadLike(t[n])
  IN  SelectSeq(cand, ok)

NeighborsDiagonal(t, w, h, c) == NeighborsWith(NeighborOffsetsAll, t, w, h, c)

\* Map.neighbors
Neighbors(t, w, h, c) == NeighborsWith(NeighborOffsets, t, w, h, c)

\* Map.dfs following only the first neighbour that was not visited.
RECURSIVE DfsFirstBranch(_, _, _, _, _, _)
DfsFirstBranch(t, w, h, current, path, visited) ==
  IF t[current] = "exit"
  THEN << Append(path, current) >>
  ELSE LET v2 == visited \cup {current}
           ns == SelectSeq(NeighborsWith(NeighborOffsets, t, w, h, current),
                           LAMBDA n : n \notin v2)
       IN  IF ns = <<>> THEN <<>>
           ELSE DfsFirstBranch(t, w, h, Head(ns), Append(path, current), v2)

\* Map.dfs.  `visited` is the Set the code threads through the recursion; it
\* adds current before the loop and deletes it after, so a call sees exactly
\* the cells of `path`.  Returns the paths pushed to _paths by this call, in
\* push order.
RECURSIVE Dfs(_, _, _, _, _, _)
Dfs(t, w, h, current, path, visited) ==
  IF t[current] = "exit"
  THEN << Append(path, current) >>
  ELSE LET ns == Neighbors(t, w, h, current)
           v2 == visited \cup {current}
       IN  Concat([i \in 1..Len(ns) |->
                     IF ns[i] \in v2 THEN <<>>
                     ELSE Dfs(t, w, h, ns[i], Append(path, current), v2)])

\* Map.planRoads: the new value of _paths; the method returns Len > 0.
PlanRoads(t, w, h) == Dfs(t, w, h, EntranceCell, <<>>, {})

\* SafariModel.isOpen setter without the planRoads gate.
SetOpenUnchecked(value, w, h) ==
  /\ paths' = IF value THEN PlanRoads(tiles, w, h) ELSE paths
  /\ isOpen' = value
  /\ tiles' = tiles
  /\ last' = [op |-> "open", value |-> value, before |-> isOpen,
              planned |-> value, found |-> (value /\ paths' # <<>>)]

\* SafariModel.isOpen setter: `if (value === true && !planRoads()) return`.
\* planRoads is only called when value is true (&& short-circuits).
SetOpen(value, w, h) ==
  /\ paths' = IF value THEN PlanRoads(tiles, w, h) ELSE paths
  /\ isOpen' = IF value /\ paths' = <<>> THEN isOpen ELSE value
  /\ tiles' = tiles
  /\ last' = [op |-> "open", value |-> value, before |-> isOpen,
              planned |-> value, found |-> (value /\ paths' # <<>>)]

\* The tile kinds a purchase can name.  Entrance and exit are in the registry
\* but buyTile refuses them.
BuyableKinds == {"road", "sand", "entrance", "exit"}

\* The early returns of SafariModel.buyTile and its same-kind test.
TileRefused(kind, c) ==
  \/ kind \in {"entrance", "exit"}
  \/ (kind = "road" /\ isOpen)
  \/ tiles[c] \in {"entrance", "exit"}
  \/ (tiles[c] = "road" /\ isOpen)
  \/ tiles[c] = kind

\* SafariModel.buyTile followed by Map.placeTile, with the balance left to
\* SpecShop: here every affordable purchase is shown, a rejected one changes
\* nothing.
BuyTile(kind, c) ==
  /\ tiles' = IF TileRefused(kind, c) THEN tiles ELSE [tiles EXCEPT ![c] = kind]
  /\ UNCHANGED <<paths, isOpen>>
  /\ last' = [op |-> "buyTile", placed |-> (tiles' # tiles)]

InitRoads ==
  /\ tiles = LoadedTiles(RoadW, RoadH)
  /\ paths = <<>>
  /\ isOpen = FALSE
  /\ last = NoOp
  /\ IdleAgents
  /\ IdleCache
  /\ IdleTours
  /\ IdleShop
  /\ IdleGame
  /\ IdleLoads

\* Map.loadMap with no roads bought, park closed.
IdleRoads(w, h) == tiles = LoadedTiles(w, h) /\ paths = <<>> /\ isOpen = FALSE

StepRoads ==
  \/ \E value \in BOOLEAN : SetOpen(value, RoadW, RoadH)
  \/ \E kind \in BuyableKinds, c \in Cells(RoadW, RoadH) : BuyTile(kind, c)

NextRoads == StepRoads /\ UNCHANGED <<agentVars, cacheVars, tourVars, shopVars, restVars>>

SpecRoads == InitRoads /\ [][NextRoads]_vars

----------------------------------------------------------------------------
(***************************************************************************)
(* C3, C4                                                                  *)
(***************************************************************************)
\* Reachability by closure, independent of the search order: the cells that a
\* chain of 4-adjacent road/entrance/exit cells joins to the entrance.
RECURSIVE ReachFrom(_, _, _, _)
ReachFrom(t, w, h, S) ==
  LET step == S \cup {n \in Cells(w, h) :
                        /\ IsRoadLike(t[n])
                        /\ \E c \in S : \/ (n[1] = c[1] /\ (n[2] - c[2]) \in {-1, 1})
                                        \/ (n[2] = c[2] /\ (n[1] - c[1]) \in {-1, 1})}
  IN  IF step = S THEN S ELSE ReachFrom(t, w, h, step)

Connected(t, w, h) ==
  \E c \in ReachFrom(t, w, h, {EntranceCell}) : t[c] = "exit"

\* C3: planRoads() returns true exactly when a chain of 4-adjacent
\* road/entrance/exit cells joins the entrance (0,0) to the exit cell, and
\* false otherwise (its evaluation ends for every grid reached).
C3_PlanRoadsIffConnected ==
  (last.op = "open" /\ last.planned) =>
     (last.found <=> Connected(tiles, RoadW, RoadH))

\* A planRoads call that found a chain on a grid that also holds a road cell
\* on no path (a dead end next to the chain).
C3_Witness ==
  /\ last.op = "open" /\ last.planned /\ last.found
  /\ \E c \in Cells(RoadW, RoadH) :
        tiles[c] = "road" /\ \A i \in 1..Len(paths) : c \notin Range(paths[i])

\* C4: opening is refused (flag unchanged) when planRoads finds no path,
\* accepted when it finds one, and closing always takes effect.
C4_OpenGatedByRoads ==
  last.op = "open" =>
     /\ (~last.value => ~isOpen)
     /\ (last.value /\ ~last.found => isOpen = last.before)
     /\ (last.value /\ last.found => isOpen)

\* An open request refused for lack of roads: the park is still closed.
C4_Witness ==
  /\ last.op = "open" /\ last.value /\ ~last.found
  /\ ~isOpen
  /\ \E c \in Cells(RoadW, RoadH) : tiles[c] = "road"

----------------------------------------------------------------------------
(***************************************************************************)
(* Visibility queries (src/src/map.ts, src/unnamed/part_006)               *)
(*                                                                         *)
(* Positions and view distances are counted in half units: a position      *)
(* <<3, 0>> is (1.5, 0), a view distance of 3 is 1.5.                       *)
(***************************************************************************)
Half == 2

\* Grid size and largest base view distance of the visibility slice.
VisW == 3
VisH == 2
MaxView == 1

VisAgents == {"a", "b"}

\* Math.floor of a coordinate given in half units.
Floor2(x2) == x2 \div Half

CellOf(pos) == <<Floor2(pos[1]), Floor2(pos[2])>>

\* Sprite.viewDistance getter, in half units: base * 1.5 on a hill.
ViewDistance(r) == IF r.hill THEN 3 * r.base ELSE Half * r.base

\* Map.getVisibleTiles: dx and dy run from -viewDistance in steps of 1 while
\* <= viewDistance (viewDistance * 2 + 1 values, also for a fractional
\* viewDistance); the tile index is floor(cell + d).  The result lists cells in
\* loop order.
GetVisibleTiles(r, w, h) ==
  LET vd   == ViewDistance(r)
      c    == CellOf(r.pos)
      n    == vd + 1
      at(i) == << Floor2(Half * c[1] - vd + Half * ((i - 1) \div n)),
                  Floor2(Half * c[2] - vd + Half * ((i - 1) % n)) >>
      inMap(t) == t[1] >= 0 /\ t[1] < w /\ t[2] >= 0 /\ t[2] < h
  IN  SelectSeq([i \in 1..(n * n) |-> at(i)], inMap)

\* The filter of getVisibleSprites without its `otherSprite === sprite` test.
GetVisibleSpritesNoSelfTest(roster, at, a) ==
  LET vd == ViewDistance(at[a])
      c  == CellOf(at[a].pos)
      seen(b) ==
         /\ at[b].pos[1] >= Half * c[1] - vd
         /\ at[b].pos[1] <= Half * c[1] + vd
         /\ at[b].pos[2] >= Half * c[2] - vd
         /\ at[b].pos[2] <= Half * c[2] + vd
  IN  SelectSeq(roster, seen)

\* Map.getVisibleSprites: the roster filtered by identity and by the other
\* sprite's own (untruncated) position against the box around the truncated
\* position of the querying sprite.
GetVisibleSprites(roster, at, a) ==
  LET vd == ViewDistance(at[a])
      c  == CellOf(at[a].pos)
      seen(b) ==
         /\ b # a
         /\ at[b].pos[1] >= Half * c[1] - vd
         /\ at[b].pos[1] <= Half * c[1] + vd
         /\ at[b].pos[2] >= Half * c[2] - vd
         /\ at[b].pos[2] <= Half * c[2] + vd
  IN  SelectSeq(roster, seen)

\* Map.removeSprite: filter by identity.
RemoveSprite(roster, a) == SelectSeq(roster, LAMBDA s : s # a)

\* The positions of the slice: every half-unit point of the map.
VisPositions == (0..(Half * (VisW - 1))) \X (0..(Half * (VisH - 1)))

\* Map.addSprite of a newly constructed agent.
VisAdd(a, p, base) ==
  /\ a \notin DOMAIN attr
  /\ attr' = (a :> [pos |-> p, base |-> base, hill |-> FALSE]) @@ attr
  /\ sprites' = Append(sprites, a)
  /\ last' = [op |-> "add"]

\* A position change as Sprite.move makes it.
VisMove(a, p) ==
  /\ a \in Range(sprites)
  /\ attr' = [attr EXCEPT ![a].pos = p]
  /\ sprites' = sprites
  /\ last' = [op |-> "move"]

\* Sprite.updateState: _isOnHill follows the tile the sprite stands on.
VisUpdateState(a, hill) ==
  /\ a \in Range(sprites)
  /\ attr' = [attr EXCEPT ![a].hill = hill]
  /\ sprites' = sprites
  /\ last' = [op |-> "updateState"]

\* A query for one sprite of the roster, as the visibility handler makes it.
VisQuery(a) ==
  /\ a \in Range(sprites)
  /\ UNCHANGED agentVars
  /\ last' = [op |-> "query", who |-> a,
              visibleTiles |-> GetVisibleTiles(attr[a], VisW, VisH),
              visibleSprites |-> GetVisibleSprites(sprites, attr, a)]

InitVis ==
  /\ IdleRoads(VisW, VisH)
  /\ IdleAgents
  /\ IdleCache
  /\ IdleTours
  /\ IdleShop
  /\ IdleGame
  /\ IdleLoads
  /\ last = NoOp

StepVis ==
  \/ \E a \in VisAgents, p \in VisPositions, base \in 1..MaxView : VisAdd(a, p, base)
  \/ \E a \in VisAgents, p \in VisPositions : VisMove(a, p)
  \/ \E a \in VisAgents, hill \in BOOLEAN : VisUpdateState(a, hill)
  \/ \E a \in VisAgents : VisQuery(a)

NextVis == StepVis /\ UNCHANGED <<roadVars, cacheVars, tourVars, shopVars, restVars>>

SpecVis == InitVis /\ [][NextVis]_vars

(***************************************************************************)
(* C6, C7                                                                  *)
(***************************************************************************)
\* The square of half-width vd (half units) around cell c, as a test on cells.
InBox(cell, c, vd) ==
  /\ Half * cell[1] >= Half * c[1] - vd /\ Half * cell[1] <= Half * c[1] + vd
  /\ Half * cell[2] >= Half * c[2] - vd /\ Half * cell[2] <= Half * c[2] + vd

\* C6: a query returns exactly the other agents whose cell lies in the square
\* of half-width viewDistance around the asker's cell, and exactly the in-map
\* tiles whose cell lies in that square.
C6_BoxOnCells ==
  last.op = "query" =>
    LET a  == last.who
        c  == CellOf(attr[a].pos)
        vd == ViewDistance(attr[a])
    IN  /\ \A b \in Range(sprites) \ {a} :
              b \in Range(last.visibleSprites) <=> InBox(CellOf(attr[b].pos), c, vd)
        /\ Range(last.visibleTiles) = {t \in Cells(VisW, VisH) : InBox(t, c, vd)}

\* C7: the sprites a query returns never include the asker.
C7_NeverSelf ==
  last.op = "query" => last.who \notin Range(last.visibleSprites)

\* A query that returned another sprite standing exactly where the asker
\* stands: position alone would not have told them apart.
C7_Witness ==
  /\ last.op = "query"
  /\ \E b \in Range(last.visibleSprites) :
        b # last.who /\ attr[b].pos = attr[last.who].pos

----------------------------------------------------------------------------
(***************************************************************************)
(* The visibility cache (src/src/map.ts 175-204, 335-336)                  *)
(*                                                                         *)
(* Times are counted in half units: TimeUnit is the 1 of `time < 1`.       *)
(***************************************************************************)
TimeUnit == 2

\* Grid of the cache slice: one row, so a position is <<x, 0>>.
CacheW == 2
CacheH == 1

CacheAgents == {"a", "b"}
\* Base view distances of the kinds in the slice (the kinds' definition data).
CacheViews == {1}
\* Tick sizes: 1/2 and 1 time units.
DtChoices == {1, TimeUnit}

\* Agents of this slice stand on cell corners and move a cell at a time.
CachePositions == {<<Half * x, 0>> : x \in 0..(CacheW - 1)}

\* The key of the handler: floor of the position, and the view distance.
KeyOf(r) == <<CellOf(r.pos), ViewDistance(r)>>

EntryKey(e) == <<e.position, e.viewDistance>>

\* Array.findIndex on the key; 0 stands for -1.
FindIndex(c, k) ==
  IF \E i \in 1..Len(c) : EntryKey(c[i]) = k
  THEN CHOOSE i \in 1..Len(c) : EntryKey(c[i]) = k /\ \A j \in 1..(i - 1) : EntryKey(c[j]) # k
  ELSE 0

\* Array.splice(idx, 1)
Splice(c, idx) == SubSeq(c, 1, idx - 1) \o SubSeq(c, idx + 1, Len(c))

\* The tiles of getVisibleTiles are the Tile objects the grid holds at the
\* time of the call: the cache entry and the sprite keep them, whatever
\* Map.placeTile puts into their cells later.  A Tile never changes its kind,
\* so the kinds at the time of the call stand for the objects.
KindsOf(tl, cells) == [i \in 1..Len(cells) |-> tl[cells[i]]]

\* The kind of the tile a sprite holds for the cell c of its visible tiles.
Seen(r) ==
  [c \in Range(r.visibleTiles) |->
     r.visibleKinds[CHOOSE i \in 1..Len(r.visibleTiles) : r.visibleTiles[i] = c]]

\* The handler with the splice of the important branch left out.
UpdateVisiblesNoSplice(st, a, important, w, h) ==
  LET r   == st.attr[a]
      k   == KeyOf(r)
      idx == FindIndex(st.cache, k)
      visibleTiles   == GetVisibleTiles(r, w, h)
      visibleKinds   == KindsOf(st.tiles, visibleTiles)
      visibleSprites == GetVisibleSprites(st.sprites, st.attr, a)
  IN  IF idx > 0 /\ ~important
      THEN [st EXCEPT !.attr[a].visibleTiles = st.cache[idx].visibleTiles,
                      !.attr[a].visibleKinds = st.cache[idx].visibleKinds,
                      !.attr[a].visibleSprites = st.cache[idx].visibleSprites,
                      !.cache[idx].time = 0,
                      !.touched = @ \cup {k}]
      ELSE [st EXCEPT !.attr[a].visibleTiles = visibleTiles,
                      !.attr[a].visibleKinds = visibleKinds,
                      !.attr[a].visibleSprites = visibleSprites,
                      !.cache = Append(st.cache,
                                  [time |-> 0, position |-> k[1], viewDistance |-> k[2],
                                   visibleTiles |-> visibleTiles,
                                   visibleKinds |-> visibleKinds,
                                   visibleSprites |-> visibleSprites]),
                      !.touched = @ \cup {k},
                      !.replaced = @ \/ idx > 0]

\* The updateVisiblesSignal handler of Map, followed by Sprite.updateVisibles.
\* st carries the roster, the agents' fields and the cache through a tick;
\* touched and replaced record what the requests did.
UpdateVisibles(st, a, important, w, h) ==
  LET r   == st.attr[a]
      k   == KeyOf(r)
      idx == FindIndex(st.cache, k)
      visibleTiles   == GetVisibleTiles(r, w, h)
      visibleKinds   == KindsOf(st.tiles, visibleTiles)
      visibleSprites == GetVisibleSprites(st.sprites, st.attr, a)
  IN  IF idx > 0 /\ ~important
      THEN [st EXCEPT !.attr[a].visibleTiles = st.cache[idx].visibleTiles,
                      !.attr[a].visibleKinds = st.cache[idx].visibleKinds,
                      !.attr[a].visibleSprites = st.cache[idx].visibleSprites,
                      !.cache[idx].time = 0,
                      !.touched = @ \cup {k}]
      ELSE [st EXCEPT !.attr[a].visibleTiles = visibleTiles,
                      !.attr[a].visibleKinds = visibleKinds,
                      !.attr[a].visibleSprites = visibleSprites,
                      !.cache = Append(IF idx > 0 THEN Splice(st.cache, idx) ELSE st.cache,
                                  [time |-> 0, position |-> k[1], viewDistance |-> k[2],
                                   visibleTiles |-> visibleTiles,
                                   visibleKinds |-> visibleKinds,
                                   visibleSprites |-> visibleSprites]),
                      !.touched = @ \cup {k},
                      !.replaced = @ \/ idx > 0]

\* The pruning with `<=` in place of `<`.
PruneCacheInclusive(c, dt) ==
  SelectSeq([i \in 1..Len(c) |-> [c[i] EXCEPT !.time = @ + dt]],
            LAMBDA e : e.time <= TimeUnit)

\* Map.tick, lines 335-336: age every entry by dt, keep those with time < 1.
PruneCache(c, dt) ==
  SelectSeq([i \in 1..Len(c) |-> [c[i] EXCEPT !.time = @ + dt]],
            LAMBDA e : e.time < TimeUnit)

\* What one act does to this slice.  idle: no request (a resting, sated
\* animal).  look: one plain request (Ranger.act and Poacher.act open with it,
\* a hungry animal makes it).  left, right: a plain request, then Sprite.move
\* shifts the position by a cell, clamped to the map.  arrive: a forced
\* request (handleArrival of a chasing shooter, a resolved shot).
ActPlans == {"idle", "look", "left", "right", "arrive"}

Clamp(lo, hi, x) == IF x < lo THEN lo ELSE IF x > hi THEN hi ELSE x

CacheAct(st, a, plan, w, h) ==
  CASE plan = "idle"   -> st
    [] plan = "look"   -> UpdateVisibles(st, a, FALSE, w, h)
    [] plan = "arrive" -> UpdateVisibles(st, a, TRUE, w, h)
    [] OTHER ->
         LET s1 == UpdateVisibles(st, a, FALSE, w, h)
             x  == s1.attr[a].pos[1] + (IF plan = "right" THEN Half ELSE -Half)
         IN  [s1 EXCEPT !.attr[a].pos = <<Clamp(0, Half * (w - 1), x), @[2]>>]

\* `this._sprites.forEach(sprite => sprite.act(dt))` over the array as it was
\* when forEach was called.
RECURSIVE CacheActs(_, _, _, _, _)
CacheActs(st, snapshot, plan, w, h) ==
  IF snapshot = <<>> THEN st
  ELSE CacheActs(CacheAct(st, Head(snapshot), plan[Head(snapshot)], w, h),
                 Tail(snapshot), plan, w, h)

\* The time since each key was last requested, kept apart from the cache:
\* reset by a request, advanced by a tick, not counted past TimeUnit.
AgeAfter(age, dt, touched) ==
  [k \in DOMAIN age \cup touched |->
     IF k \in touched THEN 0
     ELSE IF age[k] + dt >= TimeUnit THEN TimeUnit ELSE age[k] + dt]

\* Map.tick on the cache slice: prune, then every sprite acts.
CacheTick(dt, plan) ==
  LET st0 == [sprites |-> sprites, attr |-> attr, cache |-> PruneCache(cache, dt),
              tiles |-> tiles, touched |-> {}, replaced |-> FALSE]
      st1 == CacheActs(st0, sprites, plan, CacheW, CacheH)
  IN  /\ cache' = st1.cache
      /\ attr' = st1.attr
      /\ sprites' = st1.sprites
      /\ cacheAge' = AgeAfter(cacheAge, dt, st1.touched)
      /\ last' = [op |-> "tick", dt |-> dt, replaced |-> st1.replaced,
                  evicted |-> Len(cache) - Len(st0.cache), before |-> Len(cache)]

\* A new agent: constructor, Sprite.load (which ends with a plain request,
\* made while the agent is not yet in the roster), then Map.addSprite.
CacheAddAgent(a, p, base) ==
  /\ a \notin DOMAIN attr
  /\ LET at0 == (a :> [pos |-> p, base |-> base, hill |-> FALSE,
                       visibleTiles |-> <<>>, visibleKinds |-> <<>>,
                       visibleSprites |-> <<>>]) @@ attr
         st0 == [sprites |-> sprites, attr |-> at0, cache |-> cache,
                 tiles |-> tiles, touched |-> {}, replaced |-> FALSE]
         st1 == UpdateVisibles(st0, a, FALSE, CacheW, CacheH)
     IN  /\ cache' = st1.cache
         /\ attr' = st1.attr
         /\ sprites' = Append(sprites, a)
         /\ cacheAge' = AgeAfter(cacheAge, 0, st1.touched)
         /\ last' = [op |-> "add"]

\* Map.removeSprite on a death signal or a sale.
CacheRemoveAgent(a) ==
  /\ a \in Range(sprites)
  /\ sprites' = RemoveSprite(sprites, a)
  /\ UNCHANGED <<attr, cache, cacheAge>>
  /\ last' = [op |-> "remove"]

InitCache ==
  /\ IdleRoads(CacheW, CacheH)
  /\ IdleAgents
  /\ IdleCache
  /\ IdleTours
  /\ IdleShop
  /\ IdleGame
  /\ IdleLoads
  /\ last = NoOp

StepCache ==
  \/ \E dt \in DtChoices, plan \in [Range(sprites) -> ActPlans] : CacheTick(dt, plan)
  \/ \E a \in CacheAgents, p \in CachePositions, base \in CacheViews : CacheAddAgent(a, p, base)
  \/ \E a \in CacheAgents : CacheRemoveAgent(a)

NextCache == StepCache /\ UNCHANGED <<roadVars, tourVars, shopVars, restVars>>

SpecCache == InitCache /\ [][NextCache]_vars

(***************************************************************************)
(* C8, C9                                                                  *)
(***************************************************************************)
\* C8: the cache never holds two entries with the same key
\* (cell x, cell y, view distance); and whatever request comes next, a plain
\* one for a present key only resets that entry's timer, a forced one for a
\* present key leaves one entry for it, freshly computed, and a request for
\* an absent key adds one entry.
C8_OneEntryPerKey ==
  /\ \A i, j \in 1..Len(cache) : EntryKey(cache[i]) = EntryKey(cache[j]) => i = j
  /\ \A a \in DOMAIN attr, important \in BOOLEAN :
       LET st0 == [sprites |-> sprites, attr |-> attr, cache |-> cache,
                   tiles |-> tiles, touched |-> {}, replaced |-> FALSE]
           c1  == UpdateVisibles(st0, a, important, CacheW, CacheH).cache
           k   == KeyOf(attr[a])
           idx == FindIndex(cache, k)
           at  == {i \in 1..Len(c1) : EntryKey(c1[i]) = k}
       IN  /\ Len(c1) = (IF idx > 0 THEN Len(cache) ELSE Len(cache) + 1)
           /\ Cardinality(at) = 1
           /\ (idx > 0 /\ ~important) => c1 = [cache EXCEPT ![idx].time = 0]
           /\ (idx = 0 \/ important) =>
                 \A i \in at :
                   /\ c1[i].time = 0
                   /\ c1[i].visibleTiles = GetVisibleTiles(attr[a], CacheW, CacheH)
                   /\ c1[i].visibleSprites = GetVisibleSprites(sprites, attr, a)

\* A tick in which a forced request replaced the entry of a key that was
\* present, with another key cached beside it.
C8_Witness ==
  /\ last.op = "tick" /\ last.replaced
  /\ Len(cache) >= 2

\* C9: a key has an entry exactly while less than 1 time unit has passed since
\* it was last requested (created, refreshed or replaced), and the entry's
\* timer is that time: entries leave by age only, whatever their number, and
\* none of age >= 1 survives a tick's pruning.
C9_EvictedByAgeOnly ==
  /\ \A i \in 1..Len(cache) :
        /\ EntryKey(cache[i]) \in DOMAIN cacheAge
        /\ cache[i].time = cacheAge[EntryKey(cache[i])]
        /\ cache[i].time < TimeUnit
  /\ \A k \in DOMAIN cacheAge :
        cacheAge[k] < TimeUnit => \E i \in 1..Len(cache) : EntryKey(cache[i]) = k

\* A tick whose pruning evicted one entry at age 1 after two half-unit ticks
\* and kept a younger one.
C9_Witness ==
  /\ last.op = "tick" /\ last.dt = 1 /\ last.evicted >= 1
  /\ last.before > last.evicted
  /\ \E i \in 1..Len(cache) : cache[i].time = 1

----------------------------------------------------------------------------
(***************************************************************************)
(* The tick: roster iteration, jeeps and tours                             *)
(* (src/src/map.ts 153-163, 323-355; src/unnamed/part_008 58-97;           *)
(*  src/unnamed/part_003 1639-1660)                                        *)
(*                                                                         *)
(* The visibility cache is exercised by SpecCache and the balance by       *)
(* SpecShop; this specification leaves both as constructed.                *)
(***************************************************************************)
MapW == 2
MapH == 1

Jeeps == {"j1", "j2"}
Animals == {"x", "y"}
\* Visitors are numbered in the order SafariModel.tick queues them.
MaxVisitors == 5
\* `for (let i = 0; i < 4; i++)`, `_totalVisitorCount += 4`
Seats == 4

IsJeep(at, a) == at[a].kind = "jeep"

\* Array.filter keeps the order; the count of an element in an array.
Count(seq, a) == Cardinality({i \in 1..Len(seq) : seq[i] = a})

\* The jeeps of the roster, whatever their position.
JeepsInRoster(roster, at, w, h) == SelectSeq(roster, LAMBDA a : IsJeep(at, a))

\* Map.tick, lines 324-328: the jeeps of the roster whose floored position is
\* the exit cell.
JeepsAtExit(roster, at, w, h) ==
  SelectSeq(roster, LAMBDA a : IsJeep(at, a) /\ CellOf(at[a].pos) = ExitCell(w, h))

\* Map.tick, lines 330-333: one tourRatingsSignal per jeep at the exit, with
\* Jeep.getRatings(), one value per passenger.  rated counts the emissions of
\* a jeep's current tour.
RECURSIVE EmitRatings(_, _)
EmitRatings(st, js) ==
  IF js = <<>> THEN st
  ELSE LET j == Head(js)
       IN  EmitRatings([st EXCEPT !.ratings = Append(@, [jeep |-> j,
                                                        cell |-> CellOf(st.attr[j].pos),
                                                        of |-> st.attr[j].passengers]),
                                  !.attr[j].rated = @ + 1],
                       Tail(js))

\* tourFinishedSignal handler without the removal from the roster.
TourFinishedNoRemove(st, j) ==
  [st EXCEPT !.waitingJeeps = Append(@, j),
             !.total = @ + Seats,
             !.finished = @ \cup {j}]

\* tourFinishedSignal handler of Map.
TourFinished(st, j) ==
  [st EXCEPT !.sprites = RemoveSprite(@, j),
             !.waitingJeeps = Append(@, j),
             !.total = @ + Seats,
             !.finished = @ \cup {j},
             !.removed = @ \cup {<<j, j>>}]

\* One coordinate moved half a cell toward its target.
Toward(x, target) == IF x < target THEN x + 1 ELSE IF x > target THEN x - 1 ELSE x

\* Jeep.act.  mv tells whether speed * dt covers the rest of the way to the
\* next waypoint ("snap") or not ("creep": half a cell here, and a jeep half
\* a cell away arrives).
JeepAct(st, j, mv) ==
  LET r == st.attr[j]
  IN  IF r.path # <<>>
      THEN LET target == <<Half * Head(r.path)[1], Half * Head(r.path)[2]>>
               next   == <<Toward(r.pos[1], target[1]), Toward(r.pos[2], target[2])>>
           IN  IF r.pos = target
               THEN [st EXCEPT !.attr[j].path = Tail(r.path)]
               ELSE IF mv = "snap" \/ next = target
                    THEN [st EXCEPT !.attr[j].pos = target,
                                    !.attr[j].path = Tail(r.path)]
                    ELSE [st EXCEPT !.attr[j].pos = next]
      ELSE TourFinished([st EXCEPT !.attr[j].passengers = <<>>,
                                   !.attr[j].pos = <<0, 0>>,
                                   !.ratedAtFinish = @ \cup {<<j, r.rated>>}], j)

\* The act of an animal or a shooter, as far as the roster goes: it may emit a
\* death signal for itself (Animal.act, Animal.handleArrival) or for another
\* agent (Carnivore, Ranger.getShotBy, Poacher), whose handler is
\* Map.removeSprite; v is the agent removed, or "none".
AnimalAct(st, a, v) ==
  IF v = "none" THEN st
  ELSE [st EXCEPT !.sprites = RemoveSprite(@, v),
                  !.removed = IF v \in Range(st.sprites) THEN @ \cup {<<a, v>>} ELSE @]

Act(st, a, choice) ==
  LET s1 == IF IsJeep(st.attr, a) THEN JeepAct(st, a, choice) ELSE AnimalAct(st, a, choice)
  IN  [s1 EXCEPT !.acted[a] = @ + 1]

\* The iteration done over the live roster by index: for (i = 0; i <
\* sprites.length; i++) sprites[i].act(dt).
RECURSIVE ActsLiveFrom(_, _, _)
ActsLiveFrom(st, i, plan) ==
  IF i > Len(st.sprites) THEN st
  ELSE ActsLiveFrom(Act(st, st.sprites[i], plan[st.sprites[i]]), i + 1, plan)

ActsLive(st, snapshot, plan) == ActsLiveFrom(st, 1, plan)

\* `this._sprites.forEach(sprite => sprite.act(dt))`: forEach walks the array
\* it was called on; removeSprite assigns a new array to _sprites.
RECURSIVE Acts(_, _, _)
Acts(st, snapshot, plan) ==
  IF snapshot = <<>> THEN st
  ELSE Acts(Act(st, Head(snapshot), plan[Head(snapshot)]), Tail(snapshot), plan)

\* The dispatch with the visitor queue read from its tail.
DispatchFromTail(st, open, pick) ==
  IF ~open \/ Len(st.waitingVisitors) < Seats \/ st.waitingJeeps = <<>>
  THEN st
  ELSE LET j == Head(st.waitingJeeps)
           n == Len(st.waitingVisitors)
       IN  [st EXCEPT !.waitingJeeps = Tail(@),
                      !.sprites = Append(@, j),
                      !.waitingVisitors = SubSeq(@, 1, n - Seats),
                      !.attr[j].passengers = @ \o SubSeq(st.waitingVisitors, n - Seats + 1, n),
                      !.attr[j].rated = 0,
                      !.attr[j].path = st.paths[pick],
                      !.started = @ + 1]

\* Map.tick, lines 340-354.  pick is the index Math.random selects in
\* Jeep.choosePath; with no planned path `[...paths[r]]` throws after the jeep
\* and its passengers were moved, so no tour-started event follows.
Dispatch(st, open, pick) ==
  IF ~open \/ Len(st.waitingVisitors) < Seats \/ st.waitingJeeps = <<>>
  THEN st
  ELSE LET j  == Head(st.waitingJeeps)
           s1 == [st EXCEPT !.waitingJeeps = Tail(@),
                            !.sprites = Append(@, j),
                            !.waitingVisitors = SubSeq(@, Seats + 1, Len(@)),
                            !.attr[j].passengers = @ \o SubSeq(st.waitingVisitors, 1, Seats),
                            !.attr[j].rated = 0]
       IN  IF st.paths = <<>>
           THEN [s1 EXCEPT !.threw = TRUE]
           ELSE [s1 EXCEPT !.attr[j].path = st.paths[pick],
                           !.started = @ + 1]

\* What each agent of the roster may do in its act.
Choices(at, a) == IF IsJeep(at, a) THEN {"snap", "creep"} ELSE {"none"} \cup Animals
Plans == {plan \in [Range(sprites) -> {"snap", "creep", "none"} \cup Animals] :
            \A a \in Range(sprites) : plan[a] \in Choices(attr, a)}

\* The visitors created so far: queued, riding, or counted after their tour.
VisitorsSoFar ==
  Len(waitingVisitors) + totalVisitorCount
  + Len(Concat([i \in 1..Len(sprites) |->
                  IF IsJeep(attr, sprites[i]) THEN attr[sprites[i]].passengers ELSE <<>>]))

\* An animal or shooter removed from the roster is referenced by the map no
\* more: its fields are dropped with it.  Jeeps are kept whatever happens.
Kept(at, roster) ==
  [a \in {b \in DOMAIN at : IsJeep(at, b) \/ b \in Range(roster)} |-> at[a]]

\* One round of the loop of SafariModel.tick: Map.tick (ratings of the jeeps
\* at the exit, every sprite of the roster acts, then the dispatch), then at
\* most one visitor is queued.
Tick(plan, pick, arrive) ==
  LET st0 == [sprites |-> sprites, attr |-> attr, waitingJeeps |-> waitingJeeps,
              waitingVisitors |-> waitingVisitors, total |-> totalVisitorCount,
              paths |-> paths,
              acted |-> [a \in DOMAIN attr |-> 0],
              removed |-> {}, finished |-> {}, started |-> 0, threw |-> FALSE,
              ratings |-> <<>>, ratedAtFinish |-> {}]
      stR == EmitRatings(st0, JeepsAtExit(sprites, attr, MapW, MapH))
      st1 == Acts(stR, sprites, plan)
      st2 == Dispatch(st1, isOpen, pick)
  IN  /\ pick \in 1..(IF Len(paths) = 0 THEN 1 ELSE Len(paths))
      /\ arrive => VisitorsSoFar < MaxVisitors
      /\ sprites' = st2.sprites
      /\ attr' = Kept(st2.attr, st2.sprites)
      /\ waitingJeeps' = st2.waitingJeeps
      /\ waitingVisitors' = IF arrive THEN Append(st2.waitingVisitors, VisitorsSoFar + 1)
                            ELSE st2.waitingVisitors
      /\ totalVisitorCount' = st2.total
      /\ UNCHANGED <<roadVars, cacheVars, shopVars>>
      /\ last' = [op |-> "tick", snapshot |-> sprites, acted |-> st2.acted,
                  removed |-> st2.removed,
                  finished |-> st2.finished,
                  open |-> isOpen,
                  jeepsBefore |-> st1.waitingJeeps, jeepsAfter |-> st2.waitingJeeps,
                  visitorsBefore |-> st1.waitingVisitors,
                  visitorsAfter |-> st2.waitingVisitors,
                  rosterBefore |-> st1.sprites, rosterAfter |-> st2.sprites,
                  started |-> st2.started, threw |-> st2.threw,
                  ratings |-> st2.ratings, ratedAtFinish |-> st2.ratedAtFinish]

\* Map.addNewJeep with a jeep fresh from its constructor (SafariModel.buyJeep).
AddNewJeep(j) ==
  /\ j \notin DOMAIN attr
  /\ attr' = (j :> [kind |-> "jeep", pos |-> <<0, 0>>, path |-> <<>>,
                    passengers |-> <<>>, rated |-> 0]) @@ attr
  /\ waitingJeeps' = Append(waitingJeeps, j)
  /\ UNCHANGED <<roadVars, cacheVars, shopVars, sprites, waitingVisitors, totalVisitorCount>>
  /\ last' = [op |-> "addNewJeep", jeep |-> j]

\* Map.addSprite when a spawn or a purchase completes: spawnPoacher,
\* spawnGroupOffspring and the buy operations add after `await load()`, that
\* is, after the tick that started them has returned.
AddSprite(a) ==
  /\ a \notin DOMAIN attr
  /\ attr' = (a :> [kind |-> "animal"]) @@ attr
  /\ sprites' = Append(sprites, a)
  /\ UNCHANGED <<roadVars, cacheVars, shopVars, tourVars>>
  /\ last' = [op |-> "addSprite", sprite |-> a]

Init ==
  /\ IdleRoads(MapW, MapH)
  /\ IdleAgents
  /\ IdleCache
  /\ IdleTours
  /\ IdleShop
  /\ IdleGame
  /\ IdleLoads
  /\ last = NoOp

StepTour ==
  \/ \E plan \in Plans, pick \in 1..2, arrive \in BOOLEAN : Tick(plan, pick, arrive)
  \/ \E j \in Jeeps : AddNewJeep(j)
  \/ \E a \in Animals : AddSprite(a)
  \/ (\E value \in BOOLEAN : SetOpen(value, MapW, MapH))
       /\ UNCHANGED <<agentVars, cacheVars, tourVars, shopVars>>
  \/ (\E kind \in BuyableKinds, c \in Cells(MapW, MapH) : BuyTile(kind, c))
       /\ UNCHANGED <<agentVars, cacheVars, tourVars, shopVars>>

Next == StepTour /\ UNCHANGED restVars

Spec == Init /\ [][Next]_vars

(***************************************************************************)
(* C1, C2, C10                                                             *)
(***************************************************************************)
IndexIn(seq, a) == CHOOSE i \in 1..Len(seq) : seq[i] = a

\* C1: in one tick every agent that was in the roster when the tick started is
\* acted on exactly once, removals during the iteration notwithstanding, and
\* every other agent, a jeep dispatched in that tick included, is acted on
\* zero times.
C1_ActedOncePerTick ==
  last.op = "tick" =>
    /\ \A a \in DOMAIN last.acted :
         last.acted[a] = (IF a \in Range(last.snapshot) THEN 1 ELSE 0)
    /\ Range(last.snapshot) \subseteq DOMAIN last.acted
    /\ Range(sprites) \ Range(last.snapshot) \subseteq
         {a \in DOMAIN last.acted : last.acted[a] = 0}

\* A tick in which an agent removed another that stood later in the roster
\* and had not acted yet, and in which a jeep was dispatched.
C1_Witness ==
  /\ last.op = "tick"
  /\ \E p \in last.removed :
       /\ p[1] # p[2]
       /\ IndexIn(last.snapshot, p[1]) < IndexIn(last.snapshot, p[2])
  /\ last.started = 1
  /\ Range(sprites) \ Range(last.snapshot) # {}

C10_JeepsConserved ==
  /\ \A j \in DOMAIN attr :
       IsJeep(attr, j) => Count(waitingJeeps, j) + Count(sprites, j) = 1
  /\ last.op = "addNewJeep" => last.jeep \in DOMAIN attr
  /\ last.op = "tick" =>
       /\ \A j \in Jeeps \cap DOMAIN last.acted : j \in DOMAIN attr
       /\ \A j \in last.finished :
            /\ j \in Range(last.snapshot)
            /\ Count(last.jeepsBefore, j) = 1
            /\ j \notin Range(last.rosterBefore)

\* A tick in which a jeep finished its tour while another jeep waited.
C10_Witness ==
  /\ last.op = "tick" /\ last.finished # {}
  /\ Len(waitingJeeps) = 2
  /\ totalVisitorCount = Seats

----------------------------------------------------------------------------
(***************************************************************************)
(* Purchases (src/unnamed/part_003 1716-1897; src/unnamed/part_006 329-335)*)
(***************************************************************************)
ShopW == 3
ShopH == 1

\* The objects a run may buy, with the class of each; h1 and h2 are of one
\* species, so toString() gives the same id for both.
ShopKind == [r |-> "ranger", j |-> "jeep", h1 |-> "herbivore", h2 |-> "herbivore",
             c |-> "carnivore", p |-> "poacher"]
ShopAgents == DOMAIN ShopKind

\* buyPrice and chipPrice of the definition data, in the units of the balance.
Price == [road |-> 1, sand |-> 1, ranger |-> 2, jeep |-> 2, herbivore |-> 1,
          carnivore |-> 2, chip |-> 1]

\* Math.floor(Math.random() * 1000000)
GroupIds == {1, 2, 3}

ShopPositions == {<<Half * x, 0>> : x \in 0..(ShopW - 1)}

IsAnimal(at, a) == at[a].kind \in {"herbivore", "carnivore"}

\* SafariModel.buy without the price test.
CanBuyAlways(what) == TRUE

\* SafariModel.buy
CanBuy(what) == ~(Price[what] > balance)

\* A sprite as its constructor and loadJsonData leave it.
NewSprite(a, p) ==
  [kind |-> ShopKind[a], pos |-> p, base |-> 1, hill |-> FALSE,
   visibleTiles |-> <<>>, visibleKinds |-> <<>>, visibleSprites |-> <<>>,
   group |-> 0, hasChip |-> FALSE]

\* Sprite.load of a sprite just constructed: it ends with
\* updateVisiblesSignal.emit(this), which Map's handler serves whether or not
\* the sprite is ever added.
Loaded(a, p) ==
  UpdateVisibles([sprites |-> sprites, attr |-> (a :> NewSprite(a, p)) @@ attr,
                  cache |-> cache, tiles |-> tiles, touched |-> {}, replaced |-> FALSE],
                 a, FALSE, ShopW, ShopH)

\* Map.addGroup without the search for the group.
AddGroupAlways(gs, g, id) == Append(gs, [group |-> g, id |-> id])

\* Map.addGroup
AddGroup(gs, g, id) ==
  IF \E i \in 1..Len(gs) : gs[i].group = g THEN gs ELSE Append(gs, [group |-> g, id |-> id])

\* SafariModel.buyTile; Tile.load makes no request.
ShopBuyTile(kind, c) ==
  LET bought == ~TileRefused(kind, c) /\ CanBuy(kind)
  IN  /\ tiles' = IF bought THEN [tiles EXCEPT ![c] = kind] ELSE tiles
      /\ balance' = IF bought THEN balance - Price[kind] ELSE balance
      /\ UNCHANGED <<paths, isOpen, agentVars, cacheVars, tourVars, groups>>
      /\ last' = [op |-> "buy", what |-> kind,
                  tooDear |-> ~TileRefused(kind, c) /\ ~CanBuy(kind)]

\* SafariModel.buyRanger
BuyRanger(a, p) ==
  /\ ShopKind[a] = "ranger" /\ a \notin DOMAIN attr
  /\ LET st == Loaded(a, p)
     IN  /\ cache' = st.cache
         /\ cacheAge' = AgeAfter(cacheAge, 0, st.touched)
         /\ IF CanBuy("ranger")
            THEN /\ balance' = balance - Price["ranger"]
                 /\ attr' = st.attr
                 /\ sprites' = Append(sprites, a)
            ELSE UNCHANGED <<balance, attr, sprites>>
         /\ UNCHANGED <<roadVars, tourVars, groups>>
         /\ last' = [op |-> "buy", what |-> "ranger", tooDear |-> ~CanBuy("ranger")]

\* SafariModel.buyJeep; a jeep is constructed at (0, 0).
BuyJeep(a) ==
  /\ ShopKind[a] = "jeep" /\ a \notin DOMAIN attr
  /\ LET st == Loaded(a, <<0, 0>>)
     IN  /\ cache' = st.cache
         /\ cacheAge' = AgeAfter(cacheAge, 0, st.touched)
         /\ IF CanBuy("jeep")
            THEN /\ balance' = balance - Price["jeep"]
                 /\ attr' = st.attr
                 /\ waitingJeeps' = Append(waitingJeeps, a)
            ELSE UNCHANGED <<balance, attr, waitingJeeps>>
         /\ UNCHANGED <<roadVars, sprites, waitingVisitors, totalVisitorCount, groups>>
         /\ last' = [op |-> "buy", what |-> "jeep", tooDear |-> ~CanBuy("jeep")]

\* SafariModel.buyHerbivore and SafariModel.buyCarnivore (the same code); g is
\* the number Math.random gives when no animal of the species is in view.
BuyAnimal(a, p, g) ==
  /\ IsAnimal([b \in {a} |-> [kind |-> ShopKind[a]]], a) /\ a \notin DOMAIN attr
  /\ \A i \in 1..Len(groups) : groups[i].group # g
  /\ LET st   == Loaded(a, p)
         seen == GetVisibleSprites(sprites, st.attr, a)
         same == SelectSeq(seen, LAMBDA b : IsAnimal(st.attr, b) /\ ShopKind[b] = ShopKind[a])
         grp  == IF same # <<>> THEN st.attr[Head(same)].group ELSE g
     IN  /\ cache' = st.cache
         /\ cacheAge' = AgeAfter(cacheAge, 0, st.touched)
         /\ IF CanBuy(ShopKind[a])
            THEN /\ balance' = balance - Price[ShopKind[a]]
                 /\ attr' = [st.attr EXCEPT ![a].group = grp]
                 /\ groups' = AddGroup(groups, grp, ShopKind[a])
                 /\ sprites' = Append(sprites, a)
            ELSE UNCHANGED <<balance, attr, groups, sprites>>
         /\ UNCHANGED <<roadVars, tourVars>>
         /\ last' = [op |-> "buy", what |-> ShopKind[a], tooDear |-> ~CanBuy(ShopKind[a])]

\* Map.getSpritesAt for a click on the corner of cell c, where the sprites of
\* this slice stand.
GetSpritesAt(c) == SelectSeq(sprites, LAMBDA b : attr[b].pos = <<Half * c[1], Half * c[2]>>)

\* SafariModel.getTopAnimal: the animals of the list, indexed by the length of
\* the whole list; "none" stands for null and undefined.
GetTopAnimal(found) ==
  LET animals == SelectSeq(found, LAMBDA b : IsAnimal(attr, b))
  IN  IF found # <<>> /\ Len(found) <= Len(animals) THEN animals[Len(found)] ELSE "none"

\* SafariModel.chipAnimalAt
ChipAnimalAt(c) ==
  LET animal == GetTopAnimal(GetSpritesAt(c))
      chipped == animal # "none" /\ CanBuy("chip") /\ ~attr[animal].hasChip
  IN  /\ balance' = IF chipped THEN balance - Price["chip"] ELSE balance
      /\ attr' = IF chipped THEN [attr EXCEPT ![animal].hasChip = TRUE] ELSE attr
      /\ UNCHANGED <<roadVars, cacheVars, tourVars, groups, sprites>>
      /\ last' = [op |-> "buy", what |-> "chip",
                  tooDear |-> animal # "none" /\ ~CanBuy("chip")]

InitShop ==
  /\ IdleRoads(ShopW, ShopH)
  /\ IdleAgents
  /\ IdleCache
  /\ IdleTours
  /\ IdleShop
  /\ IdleGame
  /\ IdleLoads
  /\ last = NoOp

StepShop ==
  \/ \E kind \in BuyableKinds, c \in Cells(ShopW, ShopH) : ShopBuyTile(kind, c)
  \/ \E a \in ShopAgents, p \in ShopPositions : BuyRanger(a, p)
  \/ \E a \in ShopAgents : BuyJeep(a)
  \/ \E a \in ShopAgents, p \in ShopPositions, g \in GroupIds : BuyAnimal(a, p, g)
  \/ \E c \in Cells(ShopW, ShopH) : ChipAnimalAt(c)

NextShop == StepShop /\ UNCHANGED restVars

SpecShop == InitShop /\ [][NextShop]_vars

(***************************************************************************)
(* C5                                                                      *)
(***************************************************************************)
\* C5: a purchase (buyTile, buyHerbivore, buyCarnivore, buyJeep, buyRanger,
\* chipAnimalAt) whose price exceeds the balance changes none of the balance,
\* the tile grid, the roster, the waiting-jeep queue, the group registry and
\* the visibility cache.
C5_RejectedPurchaseChangesNothing ==
  [][(last'.op = "buy" /\ last'.tooDear) =>
       UNCHANGED <<balance, tiles, sprites, waitingJeeps, groups, cache>>]_vars

(***************************************************************************)
(* C11                                                                     *)
(***************************************************************************)
\* C11: ratings are emitted only for a jeep whose cell is the exit, with one
\* value for each of its 4 passengers, before the acts of that tick; a tour
\* never has ratings emitted twice, and a jeep that finishes its tour
\* (passengers cleared, tour-finished emitted) has had them emitted once.
C11_RatingsOncePerTour ==
  /\ \A j \in DOMAIN attr : IsJeep(attr, j) => attr[j].rated <= 1
  /\ last.op = "tick" =>
       /\ \A i \in 1..Len(last.ratings) :
            /\ last.ratings[i].cell = ExitCell(MapW, MapH)
            /\ Len(last.ratings[i].of) = Seats
            /\ last.ratings[i].jeep \in Range(last.snapshot)
       /\ \A p \in last.ratedAtFinish : p[2] = 1
       /\ \A j \in last.finished : \E p \in last.ratedAtFinish : p[1] = j

\* A tick that emitted the ratings of a jeep at the exit and in which that
\* jeep then finished its tour, while the other jeep waited.
C11_Witness ==
  /\ last.op = "tick"
  /\ \E i \in 1..Len(last.ratings) : last.ratings[i].jeep \in last.finished
  /\ Len(waitingJeeps) = 2

----------------------------------------------------------------------------
(***************************************************************************)
(* The day: clock, salaries, goal check, losing                            *)
(* (src/unnamed/part_003 1629-1695)                                        *)
(*                                                                         *)
(* Map.tick enters this slice by what the day logic reads: the agents it   *)
(* removed, the money its events brought in, the visitors it counted.      *)
(***************************************************************************)
\* `this._time / 1440`: the length of a day, in the units of the clock here.
DayLen == 2
MaxDays == 2
MaxTours == 1

DayKind == [h |-> "herbivore", c |-> "carnivore", r |-> "ranger"]
DayAgents == DOMAIN DayKind

\* The data of a goal once Goal.loadData has run, and of a ranger.
LoadedGoal == [balance |-> 2, herbivores |-> 1, carnivores |-> 1, visitors |-> Seats,
               forDays |-> 2]
RangerData == [salary |-> 1]

\* dt * speed of one inner step: from nothing to two days at once.
DtSteps == 0..(2 * DayLen)
MaxBalance == StartBalance + 1

\* Map.getHerbivoreCount, Map.getCarnivoreCount
CountKind(roster, at, kind) == Cardinality({i \in 1..Len(roster) : at[roster[i]].kind = kind})

\* Map.getRangerSalary
GetRangerSalary(roster, at) == RangerData.salary * CountKind(roster, at, "ranger")

Max(a, b) == IF a >= b THEN a ELSE b

\* checkGoalsMet with the counter kept on an unmet day.
CheckGoalsMetNoReset(g) ==
  LET currentDay == g.game.time \div DayLen
  IN  IF g.game.time >= DayLen /\ g.game.lastGoalCheckDay # currentDay
      THEN LET bal == Max(g.balance - GetRangerSalary(g.sprites, g.attr), 0)
               met == /\ bal >= g.game.goal.balance
                      /\ CountKind(g.sprites, g.attr, "herbivore") >= g.game.goal.herbivores
                      /\ CountKind(g.sprites, g.attr, "carnivore") >= g.game.goal.carnivores
                      /\ g.total >= g.game.goal.visitors
               days == IF met THEN g.game.daysGoalMet + 1 ELSE g.game.daysGoalMet
           IN  [g EXCEPT !.balance = bal,
                         !.game.daysGoalMet = days,
                         !.game.lastGoalCheckDay = currentDay,
                         !.game.processed = @ + 1,
                         !.checked = TRUE,
                         !.goalMet = met /\ days >= g.game.goal.forDays]
      ELSE g

\* SafariModel.checkGoalsMet
CheckGoalsMet(g) ==
  LET currentDay == g.game.time \div DayLen
  IN  IF g.game.time >= DayLen /\ g.game.lastGoalCheckDay # currentDay
      THEN LET bal == Max(g.balance - GetRangerSalary(g.sprites, g.attr), 0)
               met == /\ bal >= g.game.goal.balance
                      /\ CountKind(g.sprites, g.attr, "herbivore") >= g.game.goal.herbivores
                      /\ CountKind(g.sprites, g.attr, "carnivore") >= g.game.goal.carnivores
                      /\ g.total >= g.game.goal.visitors
               days == IF met THEN g.game.daysGoalMet + 1 ELSE 0
           IN  [g EXCEPT !.balance = bal,
                         !.game.daysGoalMet = days,
                         !.game.lastGoalCheckDay = currentDay,
                         !.game.processed = @ + 1,
                         !.checked = TRUE,
                         !.goalMet = met /\ days >= g.game.goal.forDays]
      ELSE g

\* checkLosing with the balance test alone.
CheckLosingBalanceOnly(g) ==
  IF g.balance <= 0 THEN [g EXCEPT !.balance = 0, !.lost = TRUE] ELSE g

\* SafariModel.checkLosing
CheckLosing(g) ==
  IF /\ g.balance <= 0
     /\ CountKind(g.sprites, g.attr, "herbivore") + CountKind(g.sprites, g.attr, "carnivore") = 0
  THEN [g EXCEPT !.balance = 0, !.lost = TRUE]
  ELSE g

\* One round of the loop of SafariModel.tick.  Map.tick removed the agents in
\* dead, its tour-start and bounty events added income to the balance, and a
\* finished tour added its visitors to the total; then the clock advances and
\* the two checks run.
DayStep(ndt, dead, income, toured) ==
  LET roster == SelectSeq(sprites, LAMBDA a : a \notin dead)
      g0 == [game |-> [game EXCEPT !.time = @ + ndt],
             balance |-> balance + income,
             sprites |-> roster, attr |-> attr,
             total |-> IF toured THEN totalVisitorCount + Seats ELSE totalVisitorCount,
             checked |-> FALSE, goalMet |-> FALSE, lost |-> FALSE]
      g1 == CheckGoalsMet(g0)
      g2 == CheckLosing(g1)
  IN  /\ game.time + ndt <= MaxDays * DayLen
      /\ balance + income <= MaxBalance
      /\ toured => totalVisitorCount + Seats <= MaxTours * Seats
      /\ game' = g2.game
      /\ UNCHANGED loadVars
      /\ balance' = g2.balance
      /\ sprites' = roster
      /\ attr' = [a \in Range(roster) |-> attr[a]]
      /\ totalVisitorCount' = g2.total
      /\ UNCHANGED <<roadVars, cacheVars, waitingJeeps, waitingVisitors, groups>>
      /\ last' = [op |-> "step", ndt |-> ndt, checked |-> g2.checked,
                  goalMet |-> g2.goalMet, lost |-> g2.lost,
                  daysBefore |-> game.daysGoalMet, timeBefore |-> game.time,
                  balanceAtCheck |-> g1.balance]

\* SafariModel.loadGame: the goal's data arrive.
LoadGame ==
  /\ game.goal = UnloadedGoal
  /\ game' = [game EXCEPT !.goal = LoadedGoal]
  /\ UNCHANGED loadVars
  /\ UNCHANGED <<roadVars, agentVars, cacheVars, tourVars, shopVars>>
  /\ last' = [op |-> "loadGame"]

\* Map.addSprite when a purchase or a spawn completes.
DayAddSprite(a) ==
  /\ a \notin DOMAIN attr
  /\ attr' = (a :> [kind |-> DayKind[a]]) @@ attr
  /\ sprites' = Append(sprites, a)
  /\ UNCHANGED <<roadVars, cacheVars, tourVars, shopVars, restVars>>
  /\ last' = [op |-> "addSprite", sprite |-> a]

\* SafariModel.buy of an item of price 1.
DaySpend ==
  /\ balance' = IF 1 > balance THEN balance ELSE balance - 1
  /\ UNCHANGED <<roadVars, agentVars, cacheVars, tourVars, groups, restVars>>
  /\ last' = [op |-> "spend"]

InitDay ==
  /\ IdleRoads(MapW, MapH)
  /\ IdleAgents
  /\ IdleCache
  /\ IdleTours
  /\ IdleShop
  /\ IdleGame
  /\ IdleLoads
  /\ last = NoOp

NextDay ==
  \/ \E ndt \in DtSteps, dead \in {{}} \cup {{a} : a \in DayAgents},
        income \in 0..1, toured \in BOOLEAN : DayStep(ndt, dead, income, toured)
  \/ LoadGame
  \/ \E a \in DayAgents : DayAddSprite(a)
  \/ DaySpend

SpecDay == InitDay /\ [][NextDay]_vars

(***************************************************************************)
(* C12, C13, C14                                                           *)
(***************************************************************************)
\* Whether the goal's thresholds hold in the state a daily check has seen:
\* the balance after the salaries, the roster and the visitor total.
GoalHolds ==
  /\ last.balanceAtCheck >= game.goal.balance
  /\ CountKind(sprites, attr, "herbivore") >= game.goal.herbivores
  /\ CountKind(sprites, attr, "carnivore") >= game.goal.carnivores
  /\ totalVisitorCount >= game.goal.visitors

\* C12: at a daily goal check the consecutive-day counter grows by exactly 1
\* when balance, herbivores, carnivores and visitors all reach the goal's
\* thresholds and is reset to 0 otherwise; the goal-met event is emitted at
\* that goal check exactly when the counter is then at least goal.forDays.
C12_StreakCounter ==
  (last.op = "step" /\ last.checked) =>
    /\ game.daysGoalMet = (IF GoalHolds THEN last.daysBefore + 1 ELSE 0)
    /\ last.goalMet <=> game.daysGoalMet >= game.goal.forDays

\* The second of two consecutive qualifying checks under the loaded goal: the
\* goal-met event is emitted.
C12_Witness ==
  /\ last.op = "step" /\ last.checked /\ last.goalMet
  /\ game.goal = LoadedGoal
  /\ last.daysBefore = 1

\* C13: the daily processing has run once for every day boundary (multiple of
\* the day length) the clock has reached, whatever the steps' sizes.
C13_OncePerDayBoundary == game.processed = game.time \div DayLen

\* C14: in a step the losing event is emitted exactly when, after the map
\* tick and the goal check, the balance is <= 0 and no herbivore and no
\* carnivore is in the roster.
C14_LosingIff ==
  last.op = "step" =>
    (last.lost <=>
       /\ last.balanceAtCheck <= 0
       /\ CountKind(sprites, attr, "herbivore") + CountKind(sprites, attr, "carnivore") = 0)

\* The losing event in a step that removed the last animal, a ranger being
\* still in the roster and the salaries having emptied the balance.
C14_Witness ==
  /\ last.op = "step" /\ last.lost /\ last.checked
  /\ sprites = <<"r">>

(***************************************************************************)
(* Movement integration: Sprite.move and the movement of Jeep.act, as      *)
(* functions of position, path target, speed, dt and the tile stood on.    *)
(* Lengths are whole numbers of a unit fine enough for every step of this  *)
(* slice; the offsets are axis-parallel or multiples of (3, 4), so that    *)
(* Math.sqrt(dx * dx + dy * dy) is a whole number.                         *)
(***************************************************************************)
Abs(x) == IF x < 0 THEN -x ELSE x

Min(a, b) == IF a < b THEN a ELSE b

MaxDist == 50

HasDist(dx, dy) == \E d \in 0..MaxDist : d * d = dx * dx + dy * dy

\* Math.sqrt(dx * dx + dy * dy)
Dist(dx, dy) == CHOOSE d \in 0..MaxDist : d * d = dx * dx + dy * dy

MoveSpeed == 15
MoveDts == {0, 10, 20}
MovePoints == {<<0, 0>>, <<30, 0>>, <<0, 40>>, <<30, 40>>}
MoveBounds == {[minX |-> 0, minY |-> 0, maxX |-> 30, maxY |-> 40],
               [minX |-> 0, minY |-> 0, maxX |-> 20, maxY |-> 40]}
Unbounded == [minX |-> 0, minY |-> 0, maxX |-> MaxDist, maxY |-> MaxDist]

\* The integration with the position always advanced by the step.
MoveAlwaysAdd(pos, pathTo, speed, dt, slow, b) ==
  LET dx == pathTo[1] - pos[1]
      dy == pathTo[2] - pos[2]
      dist == Dist(dx, dy)
      div == IF slow THEN 30 ELSE 10
      moveX == IF dist > 0 THEN (dx * speed * dt) \div (dist * div) ELSE 0
      moveY == IF dist > 0 THEN (dy * speed * dt) \div (dist * div) ELSE 0
      next == <<pos[1] + moveX, pos[2] + moveY>>
  IN  [pos |-> <<Max(b.minX, Min(b.maxX, next[1])), Max(b.minY, Min(b.maxY, next[2]))>>,
       next |-> next, moveX |-> moveX, moveY |-> moveY, dx |-> dx, dy |-> dy,
       snapped |-> FALSE]

\* Sprite.move with a path target: velocity = (dx, dy) / dist * speed, the
\* step is velocity * dt / 10, or / 30 on an obstacle tile; the position is
\* set to the target when the step covers the rest on both axes, else it is
\* advanced by the step and clamped to the bounds.  Jeep.act integrates the
\* same way, always / 10 and without bounds.
Move(pos, pathTo, speed, dt, slow, b) ==
  LET dx == pathTo[1] - pos[1]
      dy == pathTo[2] - pos[2]
      dist == Dist(dx, dy)
      div == IF slow THEN 30 ELSE 10
      moveX == IF dist > 0 THEN (dx * speed * dt) \div (dist * div) ELSE 0
      moveY == IF dist > 0 THEN (dy * speed * dt) \div (dist * div) ELSE 0
      next == <<pos[1] + moveX, pos[2] + moveY>>
      base == [pos |-> pos, next |-> next, moveX |-> moveX, moveY |-> moveY,
               dx |-> dx, dy |-> dy, snapped |-> FALSE]
  IN  IF dist > 0
      THEN IF Abs(moveX) >= Abs(dx) /\ Abs(moveY) >= Abs(dy)
           THEN [base EXCEPT !.pos = pathTo, !.snapped = TRUE]
           ELSE [base EXCEPT !.pos = <<Max(b.minX, Min(b.maxX, next[1])),
                                       Max(b.minY, Min(b.maxY, next[2]))>>]
      ELSE [base EXCEPT !.next = pos]

\* A sprite that moves by Sprite.move (an animal or a shooter), given a path
\* target and standing on an obstacle tile or not.
MoveSprite(dt) ==
  /\ sprites = <<"m">>
  /\ attr["m"].kind = "sprite"
  /\ HasDist(attr["m"].pathTo[1] - attr["m"].pos[1], attr["m"].pathTo[2] - attr["m"].pos[2])
  /\ LET r == attr["m"]
         m == Move(r.pos, r.pathTo, MoveSpeed, dt, r.slow, r.bounds)
     IN  /\ attr' = [attr EXCEPT !["m"].pos = m.pos]
         /\ last' = [op |-> "move", kind |-> "sprite", from |-> r.pos, target |-> r.pathTo,
                     dt |-> dt, moved |-> m]
  /\ UNCHANGED <<roadVars, sprites, cacheVars, tourVars, shopVars, restVars>>

\* Jeep.act of a jeep with a path: the first waypoint is dropped when it is
\* reached.
MoveJeep(dt) ==
  /\ sprites = <<"m">>
  /\ attr["m"].kind = "jeep"
  /\ attr["m"].path # <<>>
  /\ LET r == attr["m"]
         m == Move(r.pos, Head(r.path), MoveSpeed, dt, FALSE, Unbounded)
     IN  /\ attr' = [attr EXCEPT !["m"].pos = m.pos,
                                 !["m"].path = IF m.snapped \/ r.pos = Head(r.path)
                                               THEN Tail(@) ELSE @]
         /\ last' = [op |-> "move", kind |-> "jeep", from |-> r.pos, target |-> Head(r.path),
                     dt |-> dt, moved |-> m]
  /\ UNCHANGED <<roadVars, sprites, cacheVars, tourVars, shopVars, restVars>>

InitMove ==
  /\ IdleRoads(MapW, MapH)
  /\ IdleCache
  /\ IdleTours
  /\ IdleShop
  /\ IdleGame
  /\ IdleLoads
  /\ last = NoOp
  /\ sprites = <<"m">>
  /\ \/ \E pos \in MovePoints, pathTo \in MovePoints, slow \in BOOLEAN, b \in MoveBounds :
          attr = [a \in {"m"} |-> [kind |-> "sprite", pos |-> pos, pathTo |-> pathTo,
                                   slow |-> slow, bounds |-> b]]
     \/ \E pos \in MovePoints, first \in MovePoints, second \in MovePoints :
          attr = [a \in {"m"} |-> [kind |-> "jeep", pos |-> pos, path |-> <<first, second>>]]

NextMove ==
  \/ \E dt \in MoveDts : MoveSprite(dt)
  \/ \E dt \in MoveDts : MoveJeep(dt)

SpecMove == InitMove /\ [][NextMove]_vars

(***************************************************************************)
(* C18                                                                     *)
(***************************************************************************)
\* p lies on the segment from a to b.
OnSegment(a, p, b) ==
  /\ (p[1] - a[1]) * (b[2] - a[2]) = (p[2] - a[2]) * (b[1] - a[1])
  /\ Min(a[1], b[1]) <= p[1] /\ p[1] <= Max(a[1], b[1])
  /\ Min(a[2], b[2]) <= p[2] /\ p[2] <= Max(a[2], b[2])

DistSq(a, b) == (a[1] - b[1]) * (a[1] - b[1]) + (a[2] - b[2]) * (a[2] - b[2])

\* The step of the last move is at least the remaining offset on both axes.
StepCovers ==
  /\ Abs(last.moved.moveX) >= Abs(last.moved.dx)
  /\ Abs(last.moved.moveY) >= Abs(last.moved.dy)

\* C18 as stated: a move whose step covers the remaining offset on both axes
\* ends exactly on the path target; every other move ends (before clamping) on
\* the segment from the old position to the target, strictly closer to the
\* target than the old position.
C18_StrictlyCloser ==
  last.op = "move" =>
    /\ StepCovers => attr["m"].pos = last.target
    /\ ~StepCovers =>
         /\ OnSegment(last.from, last.moved.next, last.target)
         /\ DistSq(last.moved.next, last.target) < DistSq(last.from, last.target)

\* C18 amended: a move whose step covers the remaining offset on both axes
\* ends exactly on the path target; every other move ends (before clamping) on
\* the segment from the old position to the target, strictly closer to the
\* target when dt > 0 and on the old position when dt = 0.
C18_NoOvershoot ==
  last.op = "move" =>
    /\ StepCovers => attr["m"].pos = last.target
    /\ ~StepCovers =>
         /\ OnSegment(last.from, last.moved.next, last.target)
         /\ last.dt > 0 => DistSq(last.moved.next, last.target) < DistSq(last.from, last.target)
         /\ last.dt = 0 => last.moved.next = last.from

\* A slowed diagonal step that does not reach the target, and a jeep snapped
\* onto its waypoint, are both moves of the slice; the witness is the former.
C18_Witness ==
  /\ last.op = "move" /\ last.kind = "sprite"
  /\ ~StepCovers /\ last.dt > 0
  /\ last.moved.dx # 0 /\ last.moved.dy # 0
  /\ attr["m"].slow

(***************************************************************************)
(* Animal.act (src/unnamed/part_007) of one animal at a time on a strip of *)
(* tiles.  Positions are in half cells, levels in points of 0..100; the    *)
(* tile data files are not part of the sources: here a pond is water,      *)
(* grass is edible and grows back (its fallback tile is grass), a bush is  *)
(* edible and leaves sand, nothing is an obstacle, and the view distance   *)
(* covers the strip.                                                       *)
(***************************************************************************)
Strip == <<"entrance", "pond", "grass", "exit">>
StripW == Len(Strip)
StripTiles == [c \in Cells(StripW, 1) |-> Strip[c[1] + 1]]

IsWater(kind) == kind = "pond"
IsEdible(kind) == kind \in {"grass", "bush"}

\* Tile.fallbackTile of the edible kinds
FallbackOf == [grass |-> "grass", bush |-> "sand"]

\* The ids of the tile registry
TileIds == {"sand", "grass", "bush", "pond", "road", "entrance", "exit", "tree", "hill"}

\* createTile: the id of the new tile, "none" for an id that is not registered
CreateTile(id) == IF id \in TileIds THEN id ELSE "none"
IsObstacle(kind) == kind = "tree"

Full == 100
HungryBelow == 85
ThirstyBelow == 80

\* dt of an act; the resting time drawn on arrival (50 + random * 16); the
\* decay per time unit (3 / duration and 2 / duration, with durations that
\* depend on the age and on a random factor), on the time scale of the slice.
AnimalDts == {0, 10, 60}
RestTimes == {50}
HydrationRates == {1}
FoodRates == {1}
AnimalSpeed == 1
AnimalKinds == {"herbivore", "carnivore"}
StripPositions == {<<Half * c[1], Half * c[2]>> : c \in Cells(StripW, 1)}

TilePos(c) == <<Half * c[1], Half * c[2]>>

\* The width of a map of one row.
WidthOf(tl) == Cardinality(DOMAIN tl)

\* Animal constructor
NewAnimal(kind, p) ==
  [kind |-> kind, pos |-> p, base |-> StripW, speed |-> AnimalSpeed, hill |-> FALSE,
   pathTo |-> <<>>,
   rest |-> 0, food |-> Full, hyd |-> Full, captured |-> FALSE, wandering |-> FALSE,
   targetNeed |-> "none", seenWater |-> <<>>, seenFood |-> <<>>,
   visibleTiles |-> <<>>, visibleKinds |-> <<>>, visibleSprites |-> <<>>,
   lastTile |-> <<>>]

IsHungry(r) == r.food < HungryBelow
IsThirsty(r) == r.hyd < ThirstyBelow

\* Animal.updateHungerAndThirst
UpdateHungerAndThirst(r, dt, hr, fr) ==
  [r EXCEPT !.hyd = Max(0, @ - hr * dt), !.food = Max(0, @ - fr * dt)]

\* Sprite.updateState
UpdateState(st, a) ==
  [st EXCEPT !.attr[a].hill =
     \E i \in 1..Len(st.attr[a].visibleTiles) :
        /\ st.attr[a].visibleTiles[i] = CellOf(st.attr[a].pos)
        /\ st.attr[a].visibleKinds[i] = "hill"]

\* Sprite.computeBounds
ComputeBounds(cells) ==
  LET xs == {TilePos(cells[i])[1] : i \in 1..Len(cells)}
      ys == {TilePos(cells[i])[2] : i \in 1..Len(cells)}
  IN  [minX |-> CHOOSE x \in xs : \A z \in xs : x <= z,
       minY |-> CHOOSE y \in ys : \A z \in ys : y <= z,
       maxX |-> CHOOSE x \in xs : \A z \in xs : x >= z,
       maxY |-> CHOOSE y \in ys : \A z \in ys : y >= z]

\* updateWaterMemory / Herbivore.updateFoodMemory: every visible tile with the
\* flag is remembered; a remembered position that is visible without the
\* flag is forgotten.
UpdateTileMemory(seen, vis, flagged) ==
  LET fresh == SelectSeq(flagged, LAMBDA c : TilePos(c) \notin Range(seen))
      added == seen \o [i \in 1..Len(fresh) |-> TilePos(fresh[i])]
      gone(p) == /\ \E i \in 1..Len(vis) : TilePos(vis[i]) = p
                 /\ ~\E i \in 1..Len(flagged) : TilePos(flagged[i]) = p
  IN  SelectSeq(added, LAMBDA p : ~gone(p))

\* Herbivore.updateMemory, Carnivore.updateMemory: a carnivore's food memory
\* is the positions of the herbivores it has seen.
UpdateMemory(st, a) ==
  LET r == st.attr[a]
      prey == SelectSeq(r.visibleSprites, LAMBDA b : st.attr[b].kind = "herbivore")
      water == SelectSeq(r.visibleTiles, LAMBDA c : IsWater(Seen(r)[c]))
      edible == SelectSeq(r.visibleTiles, LAMBDA c : IsEdible(Seen(r)[c]))
  IN  [r EXCEPT !.seenWater = UpdateTileMemory(@, r.visibleTiles, water),
                !.seenFood = IF r.kind = "herbivore"
                             THEN UpdateTileMemory(@, r.visibleTiles, edible)
                             ELSE [i \in 1..Len(prey) |-> st.attr[prey[i]].pos]]

\* Animal.findClosest: the first position of least distance; <<>> for none.
FindClosest(positions, pos) ==
  IF positions = <<>> THEN <<>>
  ELSE LET i == CHOOSE k \in 1..Len(positions) :
                  /\ \A m \in 1..Len(positions) :
                       DistSq(positions[k], pos) <= DistSq(positions[m], pos)
                  /\ \A m \in 1..(k - 1) :
                       DistSq(positions[m], pos) > DistSq(positions[k], pos)
       IN  positions[i]

\* Animal.chooseNeedTarget
ChooseNeedTarget(r) ==
  LET t1 == IsThirsty(r) /\ r.targetNeed # "food"
      r1 == IF t1 THEN [r EXCEPT !.targetNeed = "drink"] ELSE r
      p1 == IF t1 THEN FindClosest(r.seenWater, r.pos) ELSE <<>>
      t2 == (IsHungry(r) /\ r1.targetNeed # "drink") \/ (IsHungry(r) /\ p1 = <<>>)
      r2 == IF t2 THEN [r1 EXCEPT !.targetNeed = "food"] ELSE r1
      p2 == IF t2 THEN FindClosest(r.seenFood, r.pos) ELSE p1
  IN  [r |-> r2, pos |-> p2]

\* Shooter.chooseRandomTarget, and Animal.chooseRandomTarget of an animal
\* without group mates in view: a random visible tile that is no obstacle,
\* clamped to the bounds.  pick is the draw of Math.random in hundredths.
ChooseRandomTarget(vis, b, tl, pick) ==
  LET free == SelectSeq(vis, LAMBDA c : ~IsObstacle(tl[c]))
  IN  IF free = <<>> THEN <<>>
      ELSE LET t == TilePos(free[((pick * Len(free)) \div 100) + 1])
           IN  <<Max(b.minX, Min(b.maxX, t[1])), Max(b.minY, Min(b.maxY, t[2]))>>

\* Sprite.isAtDestination, the threshold in half cells.
IsAtDestination(pos, pathTo, threshold) ==
  /\ pathTo # <<>>
  /\ Abs(pos[1] - pathTo[1]) <= threshold
  /\ Abs(pos[2] - pathTo[2]) <= threshold

\* Animal.getNearTiles: |dx| <= 0.5 and |dy| < 0.5
GetNearTiles(r) ==
  SelectSeq(r.visibleTiles, LAMBDA c : /\ Abs(TilePos(c)[1] - r.pos[1]) * 2 <= Half
                                       /\ Abs(TilePos(c)[2] - r.pos[2]) * 2 < Half)

\* Sprite.move towards target (the path target, <<>> for none): the tile
\* stood on is looked up among the visible tiles, a change of tile asks for
\* the visibles, and the position is integrated by Move.
SpriteMove(st, a, target, speed, dt, b, w, h) ==
  LET r == st.attr[a]
      on == SelectSeq(r.visibleTiles, LAMBDA c : /\ Abs(TilePos(c)[1] - r.pos[1]) * 2 < Half
                                                 /\ Abs(TilePos(c)[2] - r.pos[2]) * 2 < Half)
      currentTile == IF on = <<>> THEN <<>> ELSE Head(on)
      s1 == IF currentTile # r.lastTile
            THEN UpdateVisibles([st EXCEPT !.attr[a].lastTile = currentTile], a, FALSE, w, h)
            ELSE st
      slow == currentTile # <<>> /\ IsObstacle(Seen(r)[currentTile])
  IN  IF target = <<>> \/ target = r.pos THEN st
      ELSE [s1 EXCEPT !.attr[a].pos = Move(r.pos, target, speed, dt, slow, b).pos]

\* The handler of animalDeadSignal and shooterDeadSignal with the roster left
\* as it is.
DieNoRemove(st, a) == [st EXCEPT !.dead = @ \cup {a}]

\* animalDeadSignal.emit(a), shooterDeadSignal.emit(a): the Map's handler
\* removes the agent.
Die(st, a) == [st EXCEPT !.sprites = RemoveSprite(@, a), !.dead = @ \cup {a}]

\* fillFoodLevel of a carnivore that leaves its prey in the roster.
FillFoodLevelNoKill(st, a) ==
  IF \E i \in 1..Len(st.attr[a].visibleSprites) :
        LET b == st.attr[a].visibleSprites[i]
        IN  /\ st.attr[b].kind = "herbivore"
            /\ Abs(st.attr[b].pos[1] - st.attr[a].pos[1]) * 2 <= Half
            /\ Abs(st.attr[b].pos[2] - st.attr[a].pos[2]) * 2 <= Half
  THEN [st EXCEPT !.attr[a].food = Full]
  ELSE st

\* tileEatenSignal.emit(tile) for every edible tile of the near tiles: the
\* tile is the object the herbivore holds, with its cell and its kind.
EatenTiles(r, near) ==
  LET edible == SelectSeq(near, LAMBDA c : IsEdible(Seen(r)[c]))
  IN  [i \in 1..Len(edible) |-> [cell |-> edible[i], kind |-> Seen(r)[edible[i]]]]

\* Herbivore.fillFoodLevel, Carnivore.fillFoodLevel
FillFoodLevel(st, a) ==
  LET r == st.attr[a]
      near == GetNearTiles(r)
      eaten == SelectSeq(r.visibleSprites, LAMBDA b :
                 /\ st.attr[b].kind = "herbivore"
                 /\ Abs(st.attr[b].pos[1] - r.pos[1]) * 2 <= Half
                 /\ Abs(st.attr[b].pos[2] - r.pos[2]) * 2 <= Half
                 /\ ~st.attr[b].captured)
  IN  IF r.kind = "herbivore"
      THEN IF \E i \in 1..Len(near) : IsEdible(Seen(r)[near[i]])
           THEN [st EXCEPT !.attr[a].food = Full,
                           !.eaten = @ \o EatenTiles(r, near)]
           ELSE st
      ELSE IF eaten = <<>> THEN st
           ELSE [st EXCEPT !.attr[a].food = Full,
                           !.sprites = SelectSeq(@, LAMBDA b : b \notin Range(eaten)),
                           !.dead = @ \cup Range(eaten)]

\* Animal.handleArrival
HandleArrival(st, a, restTime) ==
  LET r == st.attr[a]
      r1 == [r EXCEPT !.pathTo = <<>>, !.wandering = FALSE, !.targetNeed = "none"]
      s1 == [st EXCEPT !.attr[a] = r1]
      near == GetNearTiles(r1)
      r2 == [r1 EXCEPT !.rest = restTime,
                       !.hyd = IF \E i \in 1..Len(near) : IsWater(Seen(r1)[near[i]])
                               THEN Full ELSE @]
  IN  IF r.pathTo = <<>> THEN st
      ELSE IF r1.captured THEN Die(s1, a)
      ELSE FillFoodLevel([st EXCEPT !.attr[a] = r2, !.fed = Append(@, a)], a)

\* Animal.decideAction
DecideAction(st, a, dt, pick, restTime) ==
  LET r == st.attr[a]
      b == ComputeBounds(r.visibleTiles)
      n == ChooseNeedTarget(r)
      r1 == n.r
      r2 == IF (IsHungry(r) \/ IsThirsty(r)) /\ ~r.captured
            THEN IF n.pos # <<>>
                 THEN [r1 EXCEPT !.pathTo = n.pos, !.wandering = FALSE]
                 ELSE IF ~r1.wandering
                      THEN [r1 EXCEPT !.pathTo = ChooseRandomTarget(r.visibleTiles, b, Seen(r), pick),
                                      !.wandering = TRUE, !.targetNeed = "none"]
                      ELSE [r1 EXCEPT !.targetNeed = "none"]
            ELSE IF r1.pathTo = <<>> /\ ~r.captured
                 THEN [r1 EXCEPT !.pathTo = ChooseRandomTarget(r.visibleTiles, b, Seen(r), pick)]
                 ELSE r1
      s2 == [st EXCEPT !.attr[a] = r2]
  IN  IF IsAtDestination(r2.pos, r2.pathTo, Half \div 2) THEN HandleArrival(s2, a, restTime)
      ELSE SpriteMove(s2, a, r2.pathTo, r2.speed, dt, b, WidthOf(st.tiles), 1)

\* Animal.isResting with the timer left as it is.
IsRestingNoCountdown(r, dt) == [resting |-> r.rest > 0, r |-> r]

\* Animal.isResting
IsResting(r, dt) ==
  IF r.rest > 0 THEN [resting |-> TRUE, r |-> [r EXCEPT !.rest = Max(0, @ - dt)]]
  ELSE [resting |-> FALSE, r |-> r]

\* Animal.act; rnd holds the draws of Math.random.
ActAnimal(st, a, dt, rnd) ==
  LET s0 == UpdateState(st, a)
      r0 == s0.attr[a]
      r1 == IF ~r0.captured THEN UpdateHungerAndThirst(r0, dt, rnd.hr, rnd.fr) ELSE r0
      s1 == [s0 EXCEPT !.attr[a] = r1]
      inNeed == IsHungry(r1) \/ IsThirsty(r1)
      s2 == IF inNeed THEN UpdateVisibles(s1, a, FALSE, WidthOf(st.tiles), 1) ELSE s1
      r2 == IF inNeed THEN [UpdateMemory(s2, a) EXCEPT !.rest = 0] ELSE r1
      rs == IsResting(r2, dt)
      s3 == [s2 EXCEPT !.attr[a] = rs.r]
  IN  IF r1.food <= 0 \/ r1.hyd <= 0 THEN Die(s1, a)
      ELSE IF rs.resting THEN s3
      ELSE DecideAction(s3, a, dt, rnd.pick, rnd.rest)

\* Animal.capture
Capture(r, pathTo) ==
  [r EXCEPT !.captured = TRUE, !.food = Full, !.hyd = Full, !.rest = 0, !.pathTo = pathTo]

\* Draws of Math.random in hundredths: one for each tile of the strip.
Picks == {0, 25, 50, 75}

AnimalDraws == [hr : HydrationRates, fr : FoodRates, pick : Picks, rest : RestTimes]

\* The state a tick threads through the acts.
TickState(c) ==
  [sprites |-> sprites, attr |-> attr, tiles |-> tiles, cache |-> c,
   touched |-> {}, replaced |-> FALSE, dead |-> {}, shots |-> <<>>, bounty |-> 0,
   arrivals |-> <<>>, fed |-> <<>>, acts |-> <<>>, eaten |-> <<>>]

\* Map.tick as far as the animals go: the cache is aged and pruned, then
\* every animal of the roster acts.
AnimalTick(dt, rnd) ==
  /\ sprites # <<>>
  /\ \E a \in {sprites[1]},
        st1 \in {ActAnimal(TickState(PruneCache(cache, TimeUnit * dt)), sprites[1], dt, rnd)} :
         /\ sprites' = st1.sprites
         /\ attr' = [b \in Range(st1.sprites) |-> st1.attr[b]]
         /\ cache' = st1.cache
         /\ last' = [op |-> "act", who |-> a, dt |-> dt, rnd |-> rnd,
                     before |-> attr[a], after |-> st1.attr[a], dead |-> st1.dead]
  /\ UNCHANGED <<roadVars, cacheAge, tourVars, shopVars, restVars>>

\* A purchased or spawned animal enters the roster, after Sprite.load has
\* asked for its visibles.
AnimalAdd(kind, p) ==
  /\ sprites = <<>>
  /\ \E st1 \in {UpdateVisibles([TickState(cache) EXCEPT
                                      !.attr = [b \in {"x"} |-> NewAnimal(kind, p)]],
                                   "x", FALSE, StripW, 1)} :
         /\ sprites' = <<"x">>
         /\ attr' = st1.attr
         /\ cache' = st1.cache
  /\ last' = [op |-> "addSprite", sprite |-> "x"]
  /\ UNCHANGED <<roadVars, cacheAge, tourVars, shopVars, restVars>>

\* Poacher.handleArrival captures the animal it chased and sends it to the
\* exit.
AnimalCapture ==
  /\ sprites # <<>>
  /\ ~attr[sprites[1]].captured
  /\ attr' = [attr EXCEPT ![sprites[1]] = Capture(@, TilePos(ExitCell(StripW, 1)))]
  /\ last' = [op |-> "capture", who |-> sprites[1]]
  /\ UNCHANGED <<roadVars, sprites, cacheVars, tourVars, shopVars, restVars>>

InitAnimal ==
  /\ tiles = StripTiles /\ paths = <<>> /\ isOpen = FALSE
  /\ IdleAgents
  /\ IdleCache
  /\ IdleTours
  /\ IdleShop
  /\ IdleGame
  /\ IdleLoads
  /\ last = NoOp

NextAnimal ==
  \/ \E dt \in AnimalDts, rnd \in AnimalDraws : AnimalTick(dt, rnd)
  \/ \E kind \in AnimalKinds, p \in StripPositions : AnimalAdd(kind, p)
  \/ AnimalCapture

SpecAnimal == InitAnimal /\ [][NextAnimal]_vars

(***************************************************************************)
(* C15, C16                                                                *)
(***************************************************************************)
\* The acting animal of the last act after the decay step of that act.
Decayed ==
  IF last.before.captured THEN last.before
  ELSE UpdateHungerAndThirst(last.before, last.dt, last.rnd.hr, last.rnd.fr)

\* C15: when the food or hydration level of an uncaptured animal is 0 after
\* the decay step of its act, that act emits the animal-died event, the animal
\* is no longer in the roster, and nothing but the decay has happened to the
\* animal (no memory update, decision, movement or refill); food and
\* hydration levels are within 0..100 in every state.
C15_StarvedAnimalDies ==
  /\ \A a \in DOMAIN attr : attr[a].food \in 0..Full /\ attr[a].hyd \in 0..Full
  /\ last.op = "act" =>
       /\ last.after.food \in 0..Full /\ last.after.hyd \in 0..Full
       /\ (~last.before.captured /\ (Decayed.food = 0 \/ Decayed.hyd = 0)) =>
            /\ last.who \in last.dead
            /\ last.who \notin Range(sprites)
            /\ last.after = Decayed

\* An animal on its way to a target, not resting, dies of thirst or hunger in
\* an act that would otherwise have moved it.
C15_Witness ==
  /\ last.op = "act"
  /\ last.who \in last.dead
  /\ ~last.before.captured
  /\ last.before.pathTo # <<>> /\ last.before.pathTo # last.before.pos
  /\ last.before.rest = 0
  /\ last.dt > 0

HuntStrip == <<"entrance", "grass", "exit">>
HuntW == Len(HuntStrip)
HuntTiles == [c \in Cells(HuntW, 1) |-> HuntStrip[c[1] + 1]]

\* The dt of a tick, in halves of a time unit.
HuntDts == {1, 2}

\* speed and viewDistance of the definition data of a ranger and a poacher:
\* two cells per time unit, and a view of one cell.
ShooterSpeed == 20
ShooterView == 1

\* `5 + Math.random() * 4`, in halves of a time unit.
HuntRests == {10}

\* The base of the bounty of a poacher, and the sell price of a carnivore
\* (half the buy price of its definition data).
PoacherBase == 200
CarnivoreSellPrice == 100

\* `0.8 + Math.random() * 0.7` in thousandths: the least and nearly the
\* greatest multiplier.
Multipliers == {800, 1499}

\* Math.round of the quotient n / d of naturals.
Round(n, d) == (2 * n + d) \div (2 * d)

\* `Math.round(base * multiplier)`
Bounty(base, mult) == Round(base * mult, 1000)

\* Draws of Math.random in hundredths: the least and nearly the greatest.
HuntPicks == {0, 99}

\* Shooter, Ranger and Poacher constructors.  pathTo is <<>> for undefined,
\* <<"at", x, y>> for a position of its own and <<"of", b>> for the position
\* array of the agent b, which moves with b.
NewShooter(kind, p) ==
  [kind |-> kind, pos |-> p, base |-> ShooterView, speed |-> ShooterSpeed, hill |-> FALSE,
   pathTo |-> <<>>, rest |-> 0, shootingAt |-> "none", chasing |-> "none",
   robbing |-> "none", bulletTimer |-> TimeUnit, isVisible |-> FALSE,
   visibleTiles |-> <<>>, visibleKinds |-> <<>>, visibleSprites |-> <<>>,
   lastTile |-> <<>>]

IsAnAnimal(r) == r.kind \in AnimalKinds

\* The position a path target stands for.
PathOf(st, r) ==
  IF r.pathTo = <<>> THEN <<>>
  ELSE IF r.pathTo[1] = "of" THEN st.attr[r.pathTo[2]].pos
  ELSE <<r.pathTo[2], r.pathTo[3]>>

At(p) == IF p = <<>> THEN <<>> ELSE <<"at", p[1], p[2]>>

\* list[Math.floor(Math.random() * list.length)]: "none" for undefined.
PickOf(list, pick) ==
  IF list = <<>> THEN "none" ELSE list[((pick * Len(list)) \div 100) + 1]

\* Poacher.getShotBy without taking the shooter as its target.
GetShotByNoTarget(st, t, shooter, hit) ==
  LET s1 == IF IsAnAnimal(st.attr[t]) THEN [st EXCEPT !.attr[t].pathTo = <<>>] ELSE st
  IN  IF hit THEN Die(s1, t) ELSE s1

\* Poacher.getShotBy, Ranger.getShotBy, Animal.getShotBy: hit is the outcome
\* of the draw (below 0.5 for a shooter, below 0.8 for an animal).
GetShotBy(st, t, shooter, hit) ==
  LET s1 == IF st.attr[t].kind = "poacher" THEN [st EXCEPT !.attr[t].shootingAt = shooter]
            ELSE IF IsAnAnimal(st.attr[t]) THEN [st EXCEPT !.attr[t].pathTo = <<>>]
            ELSE st
  IN  IF hit THEN Die(s1, t) ELSE s1

\* The record of a shot of a at t, resolved from the state st to the state s.
Shot(st, s, a, t, hit) ==
  [s EXCEPT !.shots = Append(@, [by |-> a, at |-> t, hit |-> hit,
                                 rosterBefore |-> st.sprites, rosterAfter |-> s.sprites,
                                 shooterTarget |-> s.attr[a].shootingAt,
                                 bounty |-> s.bounty - st.bounty,
                                 targetOfShot |-> IF IsAnAnimal(s.attr[t]) THEN "none"
                                                  ELSE s.attr[t].shootingAt])]

\* Sprite.move of a ranger or poacher towards its path target.
ShooterMove(st, a, dt, b) ==
  SpriteMove(st, a, PathOf(st, st.attr[a]), st.attr[a].speed, dt, b, WidthOf(st.tiles), 1)

\* Ranger.handleArrival
RangerArrival(st, a, restTime) ==
  IF st.attr[a].pathTo = <<>> THEN st
  ELSE IF st.attr[a].chasing # "none"
  THEN [UpdateVisibles([st EXCEPT !.attr[a].pathTo = <<>>], a, TRUE, WidthOf(st.tiles), 1)
          EXCEPT !.attr[a].shootingAt = st.attr[a].chasing,
                 !.attr[a].pathTo = <<"of", st.attr[a].chasing>>,
                 !.attr[a].rest = restTime]
  ELSE [st EXCEPT !.attr[a].pathTo = <<>>, !.attr[a].rest = restTime]

\* Ranger.movement, first statement: a ranger without path target that
\* shoots at nobody chooses a place.
RangerChoosesPlace(st, a, rnd, b) ==
  IF st.attr[a].pathTo = <<>> /\ st.attr[a].shootingAt = "none"
  THEN [st EXCEPT !.attr[a].pathTo =
          At(ChooseRandomTarget(st.attr[a].visibleTiles, b, Seen(st.attr[a]), rnd.pick))]
  ELSE st

\* Ranger.movement, second statement: a chasing ranger has arrived when the
\* target is within its view distance, another ranger within half a cell.
RangerArrives(st, a, rnd) ==
  IF IsAtDestination(st.attr[a].pos, PathOf(st, st.attr[a]),
                     IF st.attr[a].chasing # "none" THEN ViewDistance(st.attr[a])
                     ELSE Half \div 2)
  THEN RangerArrival(st, a, rnd.rest)
  ELSE st

\* Ranger.movement: the bounds are those of the tiles visible on entry.
RangerMovement(st, a, dt, rnd) ==
  ShooterMove(RangerArrives(RangerChoosesPlace(st, a, rnd,
                                               ComputeBounds(st.attr[a].visibleTiles)),
                            a, rnd),
              a, dt, ComputeBounds(st.attr[a].visibleTiles))

\* Ranger.act after a shot that hit: the path target is dropped, the bounty
\* of a carnivore or of a chased poacher is paid, the targets are dropped and
\* fresh visibles are asked for.
RangerHit(st, s, a, mult) ==
  UpdateVisibles([s EXCEPT !.attr[a].pathTo = <<>>,
                           !.attr[a].shootingAt = "none",
                           !.attr[a].chasing = "none",
                           !.bounty = @ + (IF st.attr[st.attr[a].shootingAt].kind = "carnivore"
                                           THEN Bounty(CarnivoreSellPrice, mult)
                                           ELSE IF st.attr[st.attr[a].shootingAt].kind = "poacher"
                                                   /\ st.attr[a].chasing # "none"
                                           THEN Bounty(PoacherBase, mult)
                                           ELSE 0)],
                 a, TRUE, WidthOf(st.tiles), 1)

\* The shot of Ranger.act.
RangerShot(st, a, rnd) ==
  Shot(st,
       IF rnd.hit THEN RangerHit(st, GetShotBy(st, st.attr[a].shootingAt, a, TRUE), a, rnd.mult)
       ELSE GetShotBy(st, st.attr[a].shootingAt, a, FALSE),
       a, st.attr[a].shootingAt, rnd.hit)

\* Ranger.act, `if (!this._shootingAt && !this._chasing)`: one of the
\* poachers in view becomes the target.
RangerTakesAim(st, a, rnd) ==
  IF st.attr[a].shootingAt = "none" /\ st.attr[a].chasing = "none"
  THEN [st EXCEPT !.attr[a].shootingAt =
          PickOf(SelectSeq(st.attr[a].visibleSprites,
                           LAMBDA b : st.attr[b].kind = "poacher"), rnd.pick)]
  ELSE st

\* Ranger.act, `if (this._shootingAt)` with the test of the bullet timer left
\* out: every act with a target resolves a shot.
RangerShootsAtOnce(st, a, dt, rnd) ==
  IF st.attr[a].shootingAt = "none" THEN st
  ELSE RangerShot([st EXCEPT !.attr[a].bulletTimer = TimeUnit], a, rnd)

\* Ranger.act, `if (this._shootingAt)`: the bullet timer runs, and when it
\* has run out it is set to a time unit and the shot is resolved.
RangerShoots(st, a, dt, rnd) ==
  IF st.attr[a].shootingAt = "none" THEN st
  ELSE IF st.attr[a].bulletTimer - dt <= 0
  THEN RangerShot([st EXCEPT !.attr[a].bulletTimer = TimeUnit], a, rnd)
  ELSE [st EXCEPT !.attr[a].bulletTimer = @ - dt]

\* Ranger.act
ActRanger(st, a, dt, rnd) ==
  RangerShoots(RangerTakesAim(RangerMovement(UpdateVisibles(st, a, FALSE,
                                                            WidthOf(st.tiles), 1),
                                             a, dt, rnd),
                              a, rnd),
               a, dt, rnd)

\* Poacher.handleArrival of a chasing poacher that leaves the animal as it
\* is.
PoacherRobsNoCapture(s, a, chasing) ==
  IF chasing \in Range(s.attr[a].visibleSprites)
  THEN [s EXCEPT !.attr[a].robbing = chasing,
                 !.attr[a].pathTo = At(TilePos(ExitCell(WidthOf(s.tiles), 1))),
                 !.attr[a].chasing = "none"]
  ELSE [s EXCEPT !.attr[a].chasing = "none"]

\* Poacher.handleArrival of a chasing poacher, s being the state after the
\* fresh visibles: an animal still in view is captured and led to the exit.
PoacherRobs(s, a, chasing) ==
  IF chasing \in Range(s.attr[a].visibleSprites)
  THEN [s EXCEPT !.attr[a].robbing = chasing,
                 !.attr[chasing] = Capture(@, TilePos(ExitCell(WidthOf(s.tiles), 1))),
                 !.attr[a].pathTo = At(TilePos(ExitCell(WidthOf(s.tiles), 1))),
                 !.attr[a].chasing = "none"]
  ELSE [s EXCEPT !.attr[a].chasing = "none"]

\* The record of an arrival of the chasing poacher a: where it stood, the
\* path target it had, and the roster and the agents as handleArrival left
\* them.
Arrived(s, a, chased, pos, target) ==
  [s EXCEPT !.arrivals = Append(@, [who |-> a, chased |-> chased, pos |-> pos,
                                    target |-> target, roster |-> s.sprites,
                                    after |-> s.attr])]

\* Poacher.handleArrival
PoacherArrival(st, a, restTime) ==
  IF st.attr[a].pathTo = <<>> THEN st
  ELSE IF st.attr[a].chasing = "none"
  THEN [st EXCEPT !.attr[a].pathTo = <<>>, !.attr[a].robbing = "none",
                  !.attr[a].rest = restTime]
  ELSE Arrived([PoacherRobs(UpdateVisibles([st EXCEPT !.attr[a].pathTo = <<>>,
                                                      !.attr[a].robbing = "none"],
                                           a, TRUE, WidthOf(st.tiles), 1),
                            a, st.attr[a].chasing)
                  EXCEPT !.attr[a].rest = restTime],
               a, st.attr[a].chasing, st.attr[a].pos, PathOf(st, st.attr[a]))

\* Poacher.movement, first statement: a poacher without path target chooses a
\* place.
PoacherChoosesPlace(st, a, rnd, b) ==
  IF st.attr[a].pathTo = <<>>
  THEN [st EXCEPT !.attr[a].pathTo =
          At(ChooseRandomTarget(st.attr[a].visibleTiles, b, Seen(st.attr[a]), rnd.pick))]
  ELSE st

\* Poacher.movement, second statement: arrival or a move.
PoacherGoes(st, a, dt, rnd, b) ==
  IF IsAtDestination(st.attr[a].pos, PathOf(st, st.attr[a]), Half \div 2)
  THEN PoacherArrival(st, a, rnd.rest)
  ELSE ShooterMove(st, a, dt, b)

\* Poacher.movement
PoacherMovement(st, a, dt, rnd) ==
  PoacherGoes(PoacherChoosesPlace(st, a, rnd, ComputeBounds(st.attr[a].visibleTiles)),
              a, dt, rnd, ComputeBounds(st.attr[a].visibleTiles))

\* The shot of Poacher.act: after a hit the target is dropped and fresh
\* visibles are asked for.
PoacherShot(st, a, rnd) ==
  Shot(st,
       IF rnd.hit
       THEN UpdateVisibles([GetShotBy(st, st.attr[a].shootingAt, a, TRUE)
                              EXCEPT !.attr[a].shootingAt = "none"],
                           a, TRUE, WidthOf(st.tiles), 1)
       ELSE GetShotBy(st, st.attr[a].shootingAt, a, FALSE),
       a, st.attr[a].shootingAt, rnd.hit)

\* Poacher.act, setVisibility and the choice of a target: an idle poacher
\* takes one of the animals in view, to shoot at when rnd.coin
\* (`Math.random() < 0.5`), to chase otherwise.
PoacherTakesAim(st, a, rnd) ==
  LET r == st.attr[a]
      seen == r.visibleSprites
      idle == r.shootingAt = "none" /\ r.robbing = "none" /\ r.chasing = "none"
      closeAnimals == SelectSeq(seen, LAMBDA b : IsAnAnimal(st.attr[b]) /\ ~st.attr[b].captured)
      target == PickOf(closeAnimals, rnd.pick)
  IN  [st EXCEPT !.attr[a].isVisible = \E i \in 1..Len(seen) :
                                          st.attr[seen[i]].kind \in {"jeep", "ranger"},
                 !.attr[a].shootingAt = IF idle /\ rnd.coin THEN target ELSE @,
                 !.attr[a].chasing = IF idle /\ ~rnd.coin THEN target ELSE @,
                 !.attr[a].pathTo = IF idle /\ ~rnd.coin /\ target # "none"
                                    THEN <<"of", target>> ELSE @]

\* Poacher.act, `if (this._shootingAt)`
PoacherShoots(st, a, dt, rnd) ==
  IF st.attr[a].shootingAt = "none" THEN st
  ELSE IF st.attr[a].bulletTimer - dt <= 0
  THEN PoacherShot([st EXCEPT !.attr[a].bulletTimer = TimeUnit], a, rnd)
  ELSE [st EXCEPT !.attr[a].bulletTimer = @ - dt]

\* Poacher.act
ActPoacher(st, a, dt, rnd) ==
  PoacherShoots(PoacherTakesAim(PoacherMovement(UpdateVisibles(st, a, FALSE,
                                                               WidthOf(st.tiles), 1),
                                                a, dt, rnd),
                                a, rnd),
                a, dt, rnd)

HuntAgents == {"r", "p"}

\* The cells of the strip as positions.
HuntPositions == {TilePos(<<x, 0>>) : x \in 0..(HuntW - 1)}

HuntDraws == [pick : HuntPicks, hit : BOOLEAN, coin : BOOLEAN, rest : HuntRests,
              mult : Multipliers]

\* A draw that the act of a ranger or poacher cannot consume is taken as 0 or
\* FALSE: the coin is tossed for a poacher's choice among animals, the shot is
\* resolved when the bullet timer runs out, and a place is picked when there
\* is no path target (the lists of close poachers and close animals have at
\* most one member here).
Consumed(a, dt, d) ==
  /\ d.coin => attr[a].kind = "poacher" /\ \E b \in DOMAIN attr : IsAnAnimal(attr[b])
  /\ d.hit => attr[a].bulletTimer - dt <= 0 /\ Cardinality(DOMAIN attr) > 1
  /\ d.pick # 0 => attr[a].pathTo = <<>>
  /\ d.mult # 800 => attr[a].kind = "ranger" /\ d.hit

\* The act of the class of the agent.
HuntAct(st, a, dt, rnd) ==
  IF st.attr[a].kind = "ranger" THEN ActRanger(st, a, dt, rnd)
  ELSE IF st.attr[a].kind = "poacher" THEN ActPoacher(st, a, dt, rnd)
  ELSE st

\* `this._sprites.forEach(sprite => sprite.act(dt))`: forEach walks the array
\* it was called on, so an agent removed by an earlier act of the tick still
\* acts.
RECURSIVE HuntActs(_, _, _, _)
HuntActs(st, snapshot, dt, rnd) ==
  IF snapshot = <<>> THEN st
  ELSE HuntActs(HuntAct(st, Head(snapshot), dt, rnd[Head(snapshot)]), Tail(snapshot), dt, rnd)

\* Map.tick as far as the rangers and poachers go: the cache is aged and
\* pruned, every agent of the roster acts, and SafariModel's handler of
\* bountySignal adds the bounties to the balance.
HuntTick(dt, rnd) ==
  /\ sprites # <<>>
  /\ \E st1 \in {HuntActs(TickState(PruneCache(cache, dt)), sprites, dt, rnd)} :
         /\ sprites' = st1.sprites
         /\ attr' = st1.attr
         /\ cache' = st1.cache
         /\ balance' = balance + st1.bounty
         /\ last' = [op |-> "hunt", dt |-> dt, shots |-> st1.shots]
  /\ UNCHANGED <<roadVars, cacheAge, tourVars, groups, restVars>>

\* The state Sprite.load of a new agent leaves: it ends with
\* updateVisiblesSignal.emit(this).
HuntLoaded(a, r) ==
  UpdateVisibles([TickState(cache) EXCEPT !.attr = (a :> r) @@ attr], a, FALSE, HuntW, 1)

\* SafariModel.buyRanger at a cell of the map.
HuntBuyRanger(p) ==
  /\ "r" \notin DOMAIN attr
  /\ \E st \in {HuntLoaded("r", NewShooter("ranger", p))} :
         /\ cache' = st.cache
         /\ IF CanBuy("ranger")
            THEN /\ balance' = balance - Price["ranger"]
                 /\ attr' = st.attr
                 /\ sprites' = Append(sprites, "r")
            ELSE UNCHANGED <<balance, attr, sprites>>
  /\ last' = [op |-> "buy", what |-> "ranger", tooDear |-> ~CanBuy("ranger")]
  /\ UNCHANGED <<roadVars, cacheAge, tourVars, groups, restVars>>

\* Map.spawnPoacher once its timer has run out: a poacher at a random cell,
\* with the last cell of the map as its exit.
HuntSpawnPoacher(p) ==
  /\ "p" \notin DOMAIN attr
  /\ \E st \in {HuntLoaded("p", NewShooter("poacher", p))} :
         /\ cache' = st.cache
         /\ attr' = st.attr
         /\ sprites' = Append(sprites, "p")
  /\ last' = [op |-> "addSprite", sprite |-> "p"]
  /\ UNCHANGED <<roadVars, cacheAge, tourVars, shopVars, restVars>>

\* SafariModel.selectSpriteAt on a ranger and then on a poacher or carnivore
\* of the roster: the setter of Ranger.chasing takes the position array of
\* the target as path target.
HuntChase(a, t) ==
  /\ a \in Range(sprites) /\ t \in Range(sprites)
  /\ attr[a].kind = "ranger" /\ attr[t].kind \in {"poacher", "carnivore"}
  /\ attr' = [attr EXCEPT ![a].chasing = t, ![a].pathTo = <<"of", t>>]
  /\ last' = [op |-> "chase", who |-> a, target |-> t]
  /\ UNCHANGED <<roadVars, sprites, cacheVars, tourVars, shopVars, restVars>>

InitHunt ==
  /\ tiles = HuntTiles /\ paths = <<>> /\ isOpen = FALSE
  /\ IdleAgents
  /\ IdleCache
  /\ IdleTours
  /\ IdleShop
  /\ IdleGame
  /\ IdleLoads
  /\ last = NoOp

NextHunt ==
  \/ \E dt \in HuntDts, rnd \in [Range(sprites) -> HuntDraws] :
       /\ \A a \in Range(sprites) : Consumed(a, dt, rnd[a])
       /\ HuntTick(dt, rnd)
  \/ \E p \in HuntPositions : HuntBuyRanger(p)
  \/ \E p \in HuntPositions : HuntSpawnPoacher(p)
  \/ \E a, t \in HuntAgents : HuntChase(a, t)

SpecHunt == InitHunt /\ [][NextHunt]_vars

(***************************************************************************)
(* C17                                                                     *)
(***************************************************************************)
\* A poacher, or a ranger that chases nobody.
RestsAfterArrival(r) ==
  r.kind = "poacher" \/ (r.kind = "ranger" /\ r.chasing = "none")

\* C17: while the resting timer that a poacher or a non-chasing ranger got on
\* arrival is above 0, an act counts it down by dt and the agent neither
\* moves nor takes a new path target.
C17_ShooterRests ==
  [][\A a \in Range(sprites) :
       (last'.op = "hunt" /\ RestsAfterArrival(attr[a]) /\ attr[a].rest > 0) =>
          /\ attr'[a].rest = Max(0, attr[a].rest - last'.dt)
          /\ attr'[a].pos = attr[a].pos
          /\ attr'[a].pathTo = attr[a].pathTo]_vars

(***************************************************************************)
(* C20                                                                     *)
(***************************************************************************)
\* The ranger, acting first, shot at the poacher and missed, and the poacher
\* shot back in the same tick and missed.
MutualMiss ==
  /\ last.op = "hunt"
  /\ Len(last.shots) = 2
  /\ last.shots[1].by = "r" /\ last.shots[1].at = "p" /\ ~last.shots[1].hit
  /\ last.shots[2].by = "p" /\ last.shots[2].at = "r" /\ ~last.shots[2].hit
  /\ Range(last.shots[1].rosterBefore) = {"r", "p"}

\* C20: once a shot at a poacher is resolved the poacher's shooting target is
\* the shooter; when the shot misses, the roster is what it was and the
\* shooter still has the poacher as its target; and after a tick in which the
\* ranger missed the poacher and the poacher missed the ranger, the poacher's
\* target is the ranger and both are in the roster.
C20_ShotAtPoacher ==
  /\ last.op = "hunt" =>
       \A i \in 1..Len(last.shots) :
          attr[last.shots[i].at].kind = "poacher" =>
             /\ last.shots[i].targetOfShot = last.shots[i].by
             /\ ~last.shots[i].hit =>
                  /\ last.shots[i].rosterAfter = last.shots[i].rosterBefore
                  /\ last.shots[i].shooterTarget = last.shots[i].at
  /\ MutualMiss => attr["p"].shootingAt = "r" /\ {"r", "p"} \subseteq Range(sprites)

\* The ranger and the poacher have missed each other in one tick.
C20_Witness == MutualMiss /\ attr["p"].shootingAt = "r" /\ sprites = <<"r", "p">>

(***************************************************************************)
(* The slices that move agents, side by side: a behaviour of SpecWorld is  *)
(* a behaviour of the hunt, of the animal on the strip, of the single      *)
(* moving agent, or of the tours, told apart by the map they start on.     *)
(***************************************************************************)
InHunt == tiles = HuntTiles
InAnimal == tiles = StripTiles
InMove == sprites = <<"m">>

InitWorld == InitHunt \/ InitAnimal \/ InitMove \/ Init

NextWorld ==
  \/ InHunt /\ NextHunt
  \/ InAnimal /\ NextAnimal
  \/ InMove /\ NextMove
  \/ ~InHunt /\ ~InAnimal /\ ~InMove /\ Next

SpecWorld == InitWorld /\ [][NextWorld]_vars

(***************************************************************************)
(* C19                                                                     *)
(***************************************************************************)
\* The position of the last tile of the map, <<width - 1, height - 1>> in
\* cells, in half cells; the single moving agent is on a map whose corners
\* are MovePoints.
FarCorner ==
  IF InMove THEN CHOOSE p \in MovePoints : \A q \in MovePoints : q[1] <= p[1] /\ q[2] <= p[2]
  ELSE TilePos(CHOOSE c \in DOMAIN tiles : \A d \in DOMAIN tiles : d[1] <= c[1] /\ d[2] <= c[2])

\* C19: in every reachable state, every agent of the roster stands at a
\* position (x, y) with 0 <= x <= width - 1 and 0 <= y <= height - 1.
C19_InsideMap ==
  \A i \in 1..Len(sprites) :
     "pos" \in DOMAIN attr[sprites[i]] =>
        /\ 0 <= attr[sprites[i]].pos[1] /\ attr[sprites[i]].pos[1] <= FarCorner[1]
        /\ 0 <= attr[sprites[i]].pos[2] /\ attr[sprites[i]].pos[2] <= FarCorner[2]

\* A ranger sent after a poacher has walked to the last tile of the map.
C19_Witness ==
  /\ InHunt /\ last.op = "hunt"
  /\ "r" \in Range(sprites)
  /\ attr["r"].chasing = "p"
  /\ attr["r"].lastTile # <<>>
  /\ attr["r"].pos = FarCorner

\* C21: every kill of a poacher by the shot of a ranger raises the balance
\* by a bounty between 80% and 150% of 200, that is by 160..300, whether the
\* ranger chased the poacher by order or took it as a target by itself.
C21_KillPaysBounty ==
  [][last'.op = "hunt" =>
       \A i \in 1..Len(last'.shots) :
          (/\ attr[last'.shots[i].by].kind = "ranger"
           /\ attr[last'.shots[i].at].kind = "poacher"
           /\ last'.shots[i].hit)
          => balance' - balance \in 160..300]_vars

----------------------------------------------------------------------------
\* The simple paths of at most n cells that start at the entrance and run
\* over road, entrance and exit tiles between cells that share a side, none
\* of them continued beyond an exit.
RECURSIVE SimplePathsUpTo(_, _, _, _)
SimplePathsUpTo(t, w, h, n) ==
  IF n = 1 THEN {<<EntranceCell>>}
  ELSE LET shorter == SimplePathsUpTo(t, w, h, n - 1)
           next(q) == {c \in Cells(w, h) :
                         /\ IsRoadLike(t[c])
                         /\ c \notin Range(q)
                         /\ (c[1] - q[Len(q)][1]) * (c[1] - q[Len(q)][1])
                            + (c[2] - q[Len(q)][2]) * (c[2] - q[Len(q)][2]) = 1}
       IN  shorter \cup UNION {{Append(q, c) : c \in next(q)} :
                                 q \in {r \in shorter : t[r[Len(r)]] # "exit"}}

\* Those of them that end at the exit.
SimplePaths(t, w, h) ==
  {q \in SimplePathsUpTo(t, w, h, w * h) : t[q[Len(q)]] = "exit"}

\* C28: after planRoads the stored paths are exactly the simple paths from
\* the entrance to the exit over road, entrance and exit tiles, by steps
\* between cells that share a side, and none of them is stored twice.
C28_AllSimplePaths ==
  (last.op = "open" /\ last.planned) =>
     /\ Range(paths) = SimplePaths(tiles, RoadW, RoadH)
     /\ \A i, j \in 1..Len(paths) : paths[i] = paths[j] => i = j

\* A planRoads call on a grid with two chains of different lengths from the
\* entrance to the exit.
C28_Witness ==
  /\ last.op = "open" /\ last.planned
  /\ \E i, j \in 1..Len(paths) : Len(paths[i]) < Len(paths[j])

----------------------------------------------------------------------------
(***************************************************************************)
(* The group registry: Map.addGroup called with any group number and any   *)
(* species id, in any order.                                               *)
(***************************************************************************)
GroupNumbers == {1, 2, 3, 4}
SpeciesIds == {"safari:zebra", "safari:lion"}

\* The group numbers passed to addGroup so far and the species id each was
\* first passed with, kept in the record of the last call.
AddedSoFar == IF last.op = "addGroup" THEN last.added ELSE {}
FirstSoFar == IF last.op = "addGroup" THEN last.first ELSE <<>>

\* One call of Map.addGroup.
MapAddGroup(g, id) ==
  /\ groups' = AddGroup(groups, g, id)
  /\ last' = [op |-> "addGroup", group |-> g, id |-> id, before |-> groups,
              added |-> AddedSoFar \cup {g},
              first |-> IF g \in AddedSoFar THEN FirstSoFar
                        ELSE (g :> id) @@ FirstSoFar]
  /\ UNCHANGED <<roadVars, agentVars, cacheVars, tourVars, balance>>

InitGroups ==
  /\ IdleRoads(ShopW, ShopH)
  /\ IdleAgents
  /\ IdleCache
  /\ IdleTours
  /\ IdleShop
  /\ IdleGame
  /\ IdleLoads
  /\ last = NoOp

NextGroups ==
  (\E g \in GroupNumbers, id \in SpeciesIds : MapAddGroup(g, id)) /\ UNCHANGED restVars

SpecGroups == InitGroups /\ [][NextGroups]_vars

\* C27: after any sequence of addGroup calls the registry holds exactly one
\* entry for each group number that was passed, each with the species id of
\* the first call for that number, and a call for a number already in the
\* registry leaves the registry as it was.
C27_AddGroupIdempotent ==
  last.op = "addGroup" =>
     /\ {groups[i].group : i \in 1..Len(groups)} = last.added
     /\ \A i, j \in 1..Len(groups) : groups[i].group = groups[j].group => i = j
     /\ \A i \in 1..Len(groups) : groups[i].id = last.first[groups[i].group]
     /\ (\E i \in 1..Len(last.before) : last.before[i].group = last.group)
           => groups = last.before

\* A call for a group number already registered with the other species id.
C27_Witness ==
  /\ last.op = "addGroup"
  /\ \E i \in 1..Len(last.before) :
        last.before[i].group = last.group /\ last.before[i].id # last.id

----------------------------------------------------------------------------
(***************************************************************************)
(* The park rating: the tourRatingsSignal handler of the SafariModel       *)
(* constructor, served once for every jeep Map.tick finds at the exit.     *)
(***************************************************************************)
\* What Jeep.getRatings can return: one rating per passenger, each a
\* Visitor.rating.
PassengerRatings == UNION {[1..n -> 1..5] : n \in 1..Seats}

RECURSIVE Sum(_)
Sum(q) == IF q = <<>> THEN 0 ELSE Head(q) + Sum(Tail(q))

\* The handler with Math.floor in the place of Math.round.
NewRatingFloor(old, ratings) ==
  (old * Len(ratings) + Sum(ratings)) \div (2 * Len(ratings))

\* tourRatingsSignal handler: Math.round((rating + average) / 2), with
\* average = sum / length; Math.round takes a half upwards.
NewRating(old, ratings) == Round(old * Len(ratings) + Sum(ratings), 2 * Len(ratings))

\* tourRatingsSignal.emit(ratings)
TourRatings(ratings) ==
  /\ game' = [game EXCEPT !.rating = NewRating(game.rating, ratings)]
  /\ UNCHANGED loadVars
  /\ last' = [op |-> "ratings", ratings |-> ratings, old |-> game.rating]
  /\ UNCHANGED <<roadVars, agentVars, cacheVars, tourVars, shopVars>>

InitRating ==
  /\ IdleRoads(MapW, MapH)
  /\ IdleAgents
  /\ IdleCache
  /\ IdleTours
  /\ IdleShop
  /\ IdleGame
  /\ IdleLoads
  /\ last = NoOp

NextRating == \E ratings \in PassengerRatings : TourRatings(ratings)

SpecRating == InitRating /\ [][NextRating]_vars

\* C25: the park rating is an integer from 1 to 5 in every state; it is 3
\* before the first ratings event, and after an event it is the mean of the
\* old rating and the mean of the passengers' ratings, rounded to the
\* nearest integer with a half rounded upwards.
C25_RatingInRange ==
  /\ game.rating \in 1..5
  /\ last = NoOp => game.rating = 3
  /\ last.op = "ratings" =>
       LET n == Len(last.ratings)
           twice == last.old * n + Sum(last.ratings)   \* 2 n times the exact mean
       IN  /\ 2 * n * game.rating - n <= twice
           /\ twice < 2 * n * game.rating + n

\* An event whose exact result lies halfway between two integers, and one
\* that moves the rating from 5 to a lower value.
C25_Witness ==
  /\ last.op = "ratings"
  /\ 2 * Len(last.ratings) * game.rating - Len(last.ratings)
       = last.old * Len(last.ratings) + Sum(last.ratings)
  /\ last.old = 5 /\ game.rating < 5

----------------------------------------------------------------------------
(***************************************************************************)
(* A visitor: its constructor, lookAt and the rating getter.               *)
(***************************************************************************)
\* carnivoreRegistry.size and herbivoreRegistry.size
CarnivoreSpecies == 2
HerbivoreSpecies == 3

\* The animals a jeep can pass.
ZooKind == [c1 |-> "carnivore", c2 |-> "carnivore",
            h1 |-> "herbivore", h2 |-> "herbivore", h3 |-> "herbivore"]
Zoo == DOMAIN ZooKind

\* Math.floor(Math.random() * 5) + 1 and Math.floor(Math.random() * 10) + 1
WantsRatings == 1..5
WantsFactors == {1, 2, 10}

\* Visitor constructor
NewVisitor(wantsRating, fc, fh) ==
  [kind |-> "visitor", wantsRating |-> wantsRating,
   wantsToSeeCarnivores |-> fc * ((CarnivoreSpecies * wantsRating) \div 5),
   wantsToSeeHerbivores |-> fh * ((HerbivoreSpecies * wantsRating) \div 5),
   seenAnimals |-> {}]

\* One species' part of Visitor.rating without the clamp to 1..5.
PartRatingUnclamped(seen, wants) == IF wants = 0 THEN 5 ELSE (seen * 5) \div wants

\* One species' part of Visitor.rating.
PartRating(seen, wants) ==
  IF wants = 0 THEN 5 ELSE Min(5, Max(1, (seen * 5) \div wants))

\* Visitor.rating
VisitorRating(v) ==
  LET seenCarnivores == Cardinality({a \in v.seenAnimals : ZooKind[a] = "carnivore"})
      seenHerbivores == Cardinality({a \in v.seenAnimals : ZooKind[a] = "herbivore"})
  IN  (PartRating(seenCarnivores, v.wantsToSeeCarnivores)
       + PartRating(seenHerbivores, v.wantsToSeeHerbivores)) \div 2

\* new Visitor(), its rating read.
VisitorArrives(wantsRating, fc, fh) ==
  /\ attr' = ("v" :> NewVisitor(wantsRating, fc, fh))
  /\ last' = [op |-> "visitor", rating |-> VisitorRating(attr'["v"])]
  /\ UNCHANGED <<roadVars, sprites, cacheVars, tourVars, shopVars>>

\* Visitor.lookAt, its rating read.
LookAt(animals) ==
  /\ "v" \in DOMAIN attr
  /\ attr' = [attr EXCEPT !["v"].seenAnimals = @ \cup animals]
  /\ last' = [op |-> "lookAt", rating |-> VisitorRating(attr'["v"])]
  /\ UNCHANGED <<roadVars, sprites, cacheVars, tourVars, shopVars>>

InitVisitor ==
  /\ IdleRoads(MapW, MapH)
  /\ IdleAgents
  /\ IdleCache
  /\ IdleTours
  /\ IdleShop
  /\ IdleGame
  /\ IdleLoads
  /\ last = NoOp

NextVisitor ==
  /\ \/ \E wr \in WantsRatings, fc, fh \in WantsFactors : VisitorArrives(wr, fc, fh)
     \/ \E animals \in SUBSET Zoo : LookAt(animals)
  /\ UNCHANGED restVars

SpecVisitor == InitVisitor /\ [][NextVisitor]_vars

\* C26: a visitor's rating is an integer from 1 to 5; it is 1 when the
\* visitor has seen no animal and wants to see at least one carnivore and at
\* least one herbivore, and it is 5 when the visitor wants to see no
\* carnivore and no herbivore.
C26_VisitorRating ==
  "v" \in DOMAIN attr =>
     LET v == attr["v"]
     IN  /\ last.rating = VisitorRating(v)
         /\ last.rating \in 1..5
         /\ (/\ v.seenAnimals = {}
             /\ v.wantsToSeeCarnivores > 0
             /\ v.wantsToSeeHerbivores > 0) => last.rating = 1
         /\ (v.wantsToSeeCarnivores = 0 /\ v.wantsToSeeHerbivores = 0)
              => last.rating = 5

\* A visitor that wants both kinds, has seen some of one kind only, and
\* gives a rating strictly between the ends.
C26_Witness ==
  /\ "v" \in DOMAIN attr
  /\ attr["v"].wantsToSeeCarnivores > 0 /\ attr["v"].wantsToSeeHerbivores > 0
  /\ attr["v"].seenAnimals # {}
  /\ last.rating \in 2..4

----------------------------------------------------------------------------
(***************************************************************************)
(* A poacher and a herbivore on the strip of the rangers and poachers.     *)
(* Map.tick lets both act with the same dt, a time unit here; the          *)
(* herbivore walks half a cell per time unit, and its food and hydration   *)
(* lose less than a point in the ticks of this slice.                      *)
(***************************************************************************)
RobDts == {TimeUnit}
RobAnimalSpeed == 5
RobAnimalRests == {100}
HerbivoreSellPrice == 50

RobAnimalDraws == [hr : {0}, fr : {0}, pick : HuntPicks, rest : RobAnimalRests]

\* The draws an agent's act can consume, by its class.
RobDrawsOf(a) ==
  IF IsAnAnimal(attr[a]) THEN RobAnimalDraws
  ELSE {d \in HuntDraws : d.mult = 800}

\* A draw that the act cannot consume is taken as 0 or FALSE.
RobConsumed(a, dt, d) ==
  \/ IsAnAnimal(attr[a])
  \/ /\ d.hit => attr[a].bulletTimer - dt <= 0
     /\ d.pick # 0 => attr[a].pathTo = <<>>

\* sprite.act(dt) of an animal, a ranger or a poacher.
ParkAct(st, a, dt, rnd) ==
  IF IsAnAnimal(st.attr[a]) THEN ActAnimal(st, a, dt, rnd) ELSE HuntAct(st, a, dt, rnd)

\* `this._sprites.forEach(sprite => sprite.act(dt))`
RECURSIVE ParkActs(_, _, _, _)
ParkActs(st, snapshot, dt, rnd) ==
  IF snapshot = <<>> THEN st
  ELSE ParkActs(ParkAct(st, Head(snapshot), dt, rnd[Head(snapshot)]), Tail(snapshot), dt, rnd)

\* Map.tick: the cache is aged and pruned, then every agent of the roster
\* acts.
RobTick(dt, rnd) ==
  /\ sprites # <<>>
  /\ \E st1 \in {ParkActs(TickState(PruneCache(cache, dt)), sprites, dt, rnd)} :
         /\ sprites' = st1.sprites
         /\ attr' = st1.attr
         /\ cache' = st1.cache
         /\ balance' = balance + st1.bounty
         /\ last' = [op |-> "rob", dt |-> dt, arrivals |-> st1.arrivals,
                     shots |-> st1.shots]
  /\ UNCHANGED <<roadVars, cacheAge, tourVars, groups, restVars>>

\* A herbivore bought or generated at a cell: it enters the roster after
\* Sprite.load has asked for its visibles.
RobAddAnimal(p) ==
  /\ "h" \notin DOMAIN attr
  /\ \E st \in {HuntLoaded("h", [NewAnimal("herbivore", p) EXCEPT
                                    !.speed = RobAnimalSpeed, !.base = ShooterView])} :
         /\ cache' = st.cache
         /\ attr' = st.attr
         /\ sprites' = Append(sprites, "h")
  /\ last' = [op |-> "addSprite", sprite |-> "h"]
  /\ UNCHANGED <<roadVars, cacheAge, tourVars, shopVars, restVars>>

\* Map.getSpritesAt for a click at the point p: the sprites of the roster
\* whose position is at most a sprite's size (a cell here) before p on both
\* axes.
SpritesAtPoint(p) ==
  SelectSeq(sprites, LAMBDA b : /\ attr[b].pos[1] >= p[1] - Half /\ attr[b].pos[1] <= p[1]
                                /\ attr[b].pos[2] >= p[2] - Half /\ attr[b].pos[2] <= p[2])

\* SafariModel.sellAnimalAt
SellAnimalAt(p) ==
  /\ GetTopAnimal(SpritesAtPoint(p)) # "none"
  /\ balance' = balance + HerbivoreSellPrice
  /\ sprites' = RemoveSprite(sprites, GetTopAnimal(SpritesAtPoint(p)))
  /\ last' = [op |-> "sell", who |-> GetTopAnimal(SpritesAtPoint(p))]
  /\ UNCHANGED <<roadVars, attr, cacheVars, tourVars, groups, restVars>>

InitRob ==
  /\ tiles = HuntTiles /\ paths = <<>> /\ isOpen = FALSE
  /\ IdleAgents
  /\ IdleCache
  /\ IdleTours
  /\ IdleShop
  /\ IdleGame
  /\ IdleLoads
  /\ last = NoOp

NextRob ==
  \/ \E dt \in RobDts :
       \E rnd \in {f \in [Range(sprites) -> HuntDraws \cup RobAnimalDraws] :
                     \A a \in Range(sprites) :
                        f[a] \in RobDrawsOf(a) /\ RobConsumed(a, dt, f[a])} :
         RobTick(dt, rnd)
  \/ \E p \in HuntPositions : HuntSpawnPoacher(p)
  \/ \E p \in HuntPositions : RobAddAnimal(p)
  \/ \E p \in HuntPositions : SellAnimalAt(p)

SpecRob == InitRob /\ [][NextRob]_vars

\* C22: when a chasing poacher arrives within half a cell of its path target
\* on both axes, its chase target is cleared in every case; and if the chased
\* animal is among the sprites then visible to the poacher, the animal is
\* captured with the map exit as its path target, the poacher robs that
\* animal and the poacher's path target is the map exit.
C22_PoacherRobs ==
  last.op = "rob" =>
     \A i \in 1..Len(last.arrivals) :
        LET e == last.arrivals[i]
            exit == TilePos(ExitCell(HuntW, 1))
        IN  /\ e.after[e.who].chasing = "none"
            /\ e.chased \in Range(GetVisibleSprites(e.roster, e.after, e.who)) =>
                  /\ e.after[e.chased].captured
                  /\ e.after[e.chased].pathTo = exit
                  /\ e.after[e.who].robbing = e.chased
                  /\ e.after[e.who].pathTo = At(exit)

\* A chasing poacher arrives half a cell from the animal, which is in view
\* and was not captured before.
C22_Witness ==
  /\ last.op = "rob"
  /\ \E i \in 1..Len(last.arrivals) :
        LET e == last.arrivals[i]
        IN  /\ e.pos # e.target
            /\ e.chased \in Range(GetVisibleSprites(e.roster, e.after, e.who))
            /\ e.after[e.chased].captured

\* A chasing poacher arrives where the animal stood when it was sold: the
\* chase ends without a capture.
C22_WitnessGone ==
  /\ last.op = "rob"
  /\ \E i \in 1..Len(last.arrivals) :
        /\ last.arrivals[i].chased \notin Range(last.arrivals[i].roster)
        /\ ~last.arrivals[i].after[last.arrivals[i].chased].captured

----------------------------------------------------------------------------
(***************************************************************************)
(* A carnivore and a herbivore on a strip without water.  Both see the     *)
(* whole strip and cross it in the dt of a tick, which is also the         *)
(* resting time; the hydration loses less than a point in the ticks of     *)
(* this slice, the food a point per time unit or less than a point per     *)
(* tick.                                                                   *)
(***************************************************************************)
PreyKind == [c |-> "carnivore", h |-> "herbivore"]
PreyAgents == DOMAIN PreyKind
PreyDts == {50}
PreySpeed == 2
PreyPicks == {0, 50, 99}
PreyDraws == [hr : {0}, fr : {0, 1}, pick : PreyPicks, rest : RestTimes]

\* The herbivore's food loses less than a point in every tick of this slice.
PreyConsumed(a, d) == d.fr # 0 => PreyKind[a] = "carnivore"

\* The herbivores that are not captured, within half a cell of the agent
\* who on both axes, among the sprites `visible`, the agents being as in at.
PreyNear(at, who, visible) ==
  {b \in Range(visible) :
     /\ at[b].kind = "herbivore"
     /\ ~at[b].captured
     /\ Abs(at[b].pos[1] - at[who].pos[1]) * 2 <= Half
     /\ Abs(at[b].pos[2] - at[who].pos[2]) * 2 <= Half}

\* The record of the act of a: the roster and the food level before and
\* after it, whether a was resting, the herbivores at its side among the
\* sprites it held as visible before the act and among those it held after
\* it, and whether the act came to fillFoodLevel.
Acted(s0, s1, a) ==
  [s1 EXCEPT !.acts = Append(@,
     [who |-> a, kind |-> s0.attr[a].kind,
      roster |-> s0.sprites, rosterAfter |-> s1.sprites,
      resting |-> s0.attr[a].rest > 0,
      food |-> s0.attr[a].food, foodAfter |-> s1.attr[a].food,
      near |-> PreyNear(s0.attr, a, s0.attr[a].visibleSprites),
      nearNow |-> PreyNear(s0.attr, a, s1.attr[a].visibleSprites),
      fed |-> Len(s1.fed) > Len(s0.fed)])]

\* animal.act(dt)
PreyAct(st, a, dt, rnd) == Acted(st, ActAnimal(st, a, dt, rnd), a)

\* `this._sprites.forEach(sprite => sprite.act(dt))`
RECURSIVE PreyActs(_, _, _, _)
PreyActs(st, snapshot, dt, rnd) ==
  IF snapshot = <<>> THEN st
  ELSE PreyActs(PreyAct(st, Head(snapshot), dt, rnd[Head(snapshot)]), Tail(snapshot), dt, rnd)

\* Map.tick: the cache is aged and pruned, then every animal of the roster
\* acts.
PreyTick(dt, rnd) ==
  /\ sprites # <<>>
  /\ \E st1 \in {PreyActs(TickState(PruneCache(cache, TimeUnit * dt)), sprites, dt, rnd)} :
         /\ sprites' = st1.sprites
         /\ attr' = st1.attr
         /\ cache' = st1.cache
         /\ last' = [op |-> "prey", dt |-> dt, acts |-> st1.acts]
  /\ UNCHANGED <<roadVars, cacheAge, tourVars, shopVars, restVars>>

\* An animal bought or generated at a cell: it enters the roster after
\* Sprite.load has asked for its visibles.
PreyAdd(a, p) ==
  /\ a \notin DOMAIN attr
  /\ \E st \in {HuntLoaded(a, [NewAnimal(PreyKind[a], p) EXCEPT !.speed = PreySpeed])} :
         /\ cache' = st.cache
         /\ attr' = st.attr
         /\ sprites' = Append(sprites, a)
  /\ last' = [op |-> "addSprite", sprite |-> a]
  /\ UNCHANGED <<roadVars, cacheAge, tourVars, shopVars, restVars>>

\* Poacher.handleArrival captures the herbivore it chased.
PreyCapture ==
  /\ "h" \in Range(sprites)
  /\ ~attr["h"].captured
  /\ attr' = [attr EXCEPT !["h"] = Capture(@, TilePos(ExitCell(HuntW, 1)))]
  /\ last' = [op |-> "capture", who |-> "h"]
  /\ UNCHANGED <<roadVars, sprites, cacheVars, tourVars, shopVars, restVars>>

InitPrey ==
  /\ tiles = HuntTiles /\ paths = <<>> /\ isOpen = FALSE
  /\ IdleAgents
  /\ IdleCache
  /\ IdleTours
  /\ IdleShop
  /\ IdleGame
  /\ IdleLoads
  /\ last = NoOp

NextPrey ==
  \/ \E dt \in PreyDts, rnd \in [Range(sprites) -> PreyDraws] :
       /\ \A a \in Range(sprites) : PreyConsumed(a, rnd[a])
       /\ PreyTick(dt, rnd)
  \/ \E a \in PreyAgents, p \in HuntPositions : PreyAdd(a, p)
  \/ PreyCapture

SpecPrey == InitPrey /\ [][NextPrey]_vars

\* C23: in every act of a carnivore that is in the roster and stays in it,
\* each herbivore that is among its visible sprites, not captured and within
\* half a cell of it on both axes is removed from the roster in that act and
\* the carnivore's food level becomes 100, whether the carnivore rests, walks
\* or arrives.
C23_EatsInEveryAct ==
  last.op = "prey" =>
     \A i \in 1..Len(last.acts) :
        LET e == last.acts[i]
        IN  (/\ e.kind = "carnivore"
             /\ e.who \in Range(e.roster) /\ e.who \in Range(e.rosterAfter)
             /\ e.near # {})
            => /\ e.near \cap Range(e.rosterAfter) = {}
               /\ e.foodAfter = Full

\* C23, as the code has it: an act of a carnivore in which handleArrival
\* comes to the food check removes every herbivore that is among its visible
\* sprites, not captured and within half a cell of it on both axes, and
\* sets the carnivore's food level to 100 if there is one; an act in which
\* the carnivore rests or walks removes no herbivore and does not raise the
\* food level.
C23_EatsOnArrival ==
  last.op = "prey" =>
     \A i \in 1..Len(last.acts) :
        LET e == last.acts[i]
        IN  e.kind = "carnivore" =>
              IF e.fed
              THEN /\ e.nearNow \cap Range(e.rosterAfter) = {}
                   /\ e.nearNow # {} => e.foodAfter = Full
              ELSE /\ Range(e.rosterAfter) \ {e.who} = Range(e.roster) \ {e.who}
                   /\ e.foodAfter <= e.food

\* A hungry carnivore arrives with the herbivore at its side and eats it.
C23_Witness ==
  /\ last.op = "prey"
  /\ \E i \in 1..Len(last.acts) :
        /\ last.acts[i].who = "c" /\ last.acts[i].fed
        /\ "h" \in Range(last.acts[i].roster)
        /\ "h" \notin Range(last.acts[i].rosterAfter)
        /\ last.acts[i].food < Full
        /\ last.acts[i].foodAfter = Full

\* A resting carnivore that is not hungry acts with the herbivore at its
\* side among its visible sprites, and the herbivore stays in the roster.
C23_WitnessResting ==
  /\ last.op = "prey"
  /\ \E i \in 1..Len(last.acts) :
        /\ last.acts[i].who = "c" /\ last.acts[i].resting /\ ~last.acts[i].fed
        /\ last.acts[i].near = {"h"}
        /\ "h" \in Range(last.acts[i].rosterAfter)

----------------------------------------------------------------------------
(***************************************************************************)
(* loadJson (utils/load): calls for the definition records of two species  *)
(* that share a record of defaults.  A call runs to its first await in one *)
(* step; the response of a fetch arrives in a later step, in any order.    *)
(***************************************************************************)
MaxCalls == 3
CallIds == 1..MaxCalls

\* jsonData.default of the records: the name of the record of defaults, and
\* "none" for a record without the key.
DefaultOf == ("data/zebra" :> "data/animal.default")
             @@ ("data/lion" :> "data/animal.default")
             @@ ("data/animal.default" :> "none")
JsonNames == DOMAIN DefaultOf

\* `jsonCache.set(name, v)` and one more fetch() for name.
SetCache(jc, name, v) == (name :> v) @@ jc
Fetched(f, name) == (name :> ((IF name \in DOMAIN f THEN f[name] ELSE 0) + 1)) @@ f

\* The object `await response.json()` gives call c for the record name.
Parsed(c, name) == <<c, name>>

\* loadJson(name) up to its first await: a cached record is returned, else
\* fetch() is called.
LoadJson(c, name) ==
  /\ c \notin DOMAIN loads
  /\ IF name \in DOMAIN jsonCache
     THEN /\ loads' = (c :> [name |-> name, stage |-> "done", value |-> jsonCache[name]])
                        @@ loads
          /\ UNCHANGED fetches
     ELSE /\ loads' = (c :> [name |-> name, stage |-> "fetch", value |-> "none"]) @@ loads
          /\ fetches' = Fetched(fetches, name)
  /\ UNCHANGED jsonCache
  /\ last' = [op |-> "loadJson", call |-> c, hit |-> name \in DOMAIN jsonCache]
  /\ UNCHANGED <<roadVars, agentVars, cacheVars, tourVars, shopVars, game>>

\* The response of the fetch of call c: a response that is not ok throws;
\* else the record is parsed and, if it names defaults, loadJson is called
\* for them (a cached record of defaults is merged at once, else its fetch
\* is awaited); a record without defaults is cached and returned.
FetchResponds(c, ok) ==
  /\ c \in DOMAIN loads /\ loads[c].stage = "fetch"
  /\ LET name == loads[c].name
         def  == DefaultOf[name]
     IN  IF ~ok
         THEN /\ loads' = [loads EXCEPT ![c].stage = "failed"]
              /\ UNCHANGED <<jsonCache, fetches>>
         ELSE IF def = "none" \/ def \in DOMAIN jsonCache
         THEN /\ jsonCache' = SetCache(jsonCache, name, Parsed(c, name))
              /\ loads' = [loads EXCEPT ![c].stage = "done", ![c].value = Parsed(c, name)]
              /\ UNCHANGED fetches
         ELSE /\ fetches' = Fetched(fetches, def)
              /\ loads' = [loads EXCEPT ![c].stage = "default"]
              /\ UNCHANGED jsonCache
  /\ last' = [op |-> "response", call |-> c, ok |-> ok]
  /\ UNCHANGED <<roadVars, agentVars, cacheVars, tourVars, shopVars, game>>

\* The response of the fetch of the defaults that call c waits for: the
\* inner loadJson caches the defaults and returns them, the outer one merges
\* them, caches its record and returns it; a response that is not ok throws
\* through both.
DefaultResponds(c, ok) ==
  /\ c \in DOMAIN loads /\ loads[c].stage = "default"
  /\ LET name == loads[c].name
         def  == DefaultOf[name]
     IN  IF ~ok
         THEN /\ loads' = [loads EXCEPT ![c].stage = "failed"]
              /\ UNCHANGED jsonCache
         ELSE /\ jsonCache' = SetCache(SetCache(jsonCache, def, Parsed(c, def)),
                                       name, Parsed(c, name))
              /\ loads' = [loads EXCEPT ![c].stage = "done", ![c].value = Parsed(c, name)]
  /\ UNCHANGED fetches
  /\ last' = [op |-> "response", call |-> c, ok |-> ok]
  /\ UNCHANGED <<roadVars, agentVars, cacheVars, tourVars, shopVars, game>>

InitJson ==
  /\ IdleRoads(MapW, MapH)
  /\ IdleAgents
  /\ IdleCache
  /\ IdleTours
  /\ IdleShop
  /\ IdleGame
  /\ IdleLoads
  /\ last = NoOp

NextJson ==
  \/ \E c \in CallIds, name \in JsonNames : LoadJson(c, name)
  \/ \E c \in CallIds, ok \in BOOLEAN : FetchResponds(c, ok)
  \/ \E c \in CallIds, ok \in BOOLEAN : DefaultResponds(c, ok)

SpecJson == InitJson /\ [][NextJson]_vars

\* C29: whatever the order of the calls and the responses, fetch is called
\* at most once for a record name, all the calls for a name that returned
\* have returned the same object, and a call whose fetch failed has cached
\* nothing.
C29_FetchedOnce ==
  /\ \A n \in DOMAIN fetches : fetches[n] <= 1
  /\ \A c, d \in DOMAIN loads :
        (loads[c].name = loads[d].name /\ loads[c].stage = "done" /\ loads[d].stage = "done")
           => loads[c].value = loads[d].value
  /\ \A n \in DOMAIN jsonCache :
        \E c \in DOMAIN loads : loads[c].stage = "done" /\ jsonCache[n][1] = c

\* The part of C29 about failures: every cached object was parsed by a call
\* that returned, so a call that threw has cached nothing.
FailureCachesNothing ==
  \A n \in DOMAIN jsonCache :
     \E c \in DOMAIN loads : loads[c].stage = "done" /\ jsonCache[n][1] = c

\* The part of C29 about calls one after the other: a call made when the
\* name is cached fetches nothing.
HitFetchesNothing ==
  [][(last'.op = "loadJson" /\ last'.hit) => fetches' = fetches]_vars

----------------------------------------------------------------------------
(***************************************************************************)
(* Agents under load: a purchase or a spawn constructs the agent and       *)
(* awaits Sprite.load, whose two parts (the draw data and the definition   *)
(* data) are fetched side by side; what follows the await runs in a later  *)
(* step, with ticks and other operations in between.                       *)
(***************************************************************************)
LoadAgents == {"r", "j", "h1", "p"}
LoadParts == {"draw", "json"}

\* Where the agents of this slice are placed: the first and the last cell.
LoadPositions == {<<0, 0>>, <<Half * (ShopW - 1), 0>>}

\* `await Promise.all([this.loadDrawData(), this.loadJsonData()])` resumes
\* when one part only has loaded.
AnyLoaded(l) == l.draw = "ok" \/ l.json = "ok"

\* `await Promise.all([this.loadDrawData(), this.loadJsonData()])` resumes
\* when both parts have loaded.
AllLoaded(l) == l.draw = "ok" /\ l.json = "ok"

\* buyRanger, buyJeep, buyHerbivore, spawnPoacher (animalGeneration and
\* spawnGroupOffspring have the same shape) up to `await x.load()`.
StartLoad(a, p) ==
  /\ a \notin DOMAIN loads
  /\ ShopKind[a] = "jeep" => p = <<0, 0>>    \* new Jeep() takes no position
  /\ loads' = (a :> [pos |-> p, draw |-> "pending", json |-> "pending"]) @@ loads
  /\ last' = [op |-> "start", who |-> a]
  /\ UNCHANGED <<roadVars, agentVars, cacheVars, tourVars, shopVars, game, jsonCache,
                 fetches>>

\* One part of the load of a throws: Promise.all rejects, or has rejected
\* already, and the operation that awaited it ends there.
PartFails(a, part) ==
  /\ a \in DOMAIN loads /\ loads[a][part] = "pending"
  /\ loads' = [loads EXCEPT ![a][part] = "failed"]
  /\ last' = [op |-> "failed", who |-> a]
  /\ UNCHANGED <<roadVars, agentVars, cacheVars, tourVars, shopVars, game, jsonCache,
                 fetches>>

\* Map.spawnPoacher after `await poacher.load()`.
SpawnPoacherDone(a, p) ==
  /\ ShopKind[a] = "poacher" /\ a \notin DOMAIN attr
  /\ LET st == Loaded(a, p)
     IN  /\ cache' = st.cache
         /\ cacheAge' = AgeAfter(cacheAge, 0, st.touched)
         /\ attr' = st.attr
         /\ sprites' = Append(sprites, a)
  /\ UNCHANGED <<roadVars, tourVars, shopVars>>
  /\ last' = [op |-> "addSprite", sprite |-> a]

\* One part of the load of a has loaded.  When Promise.all resolves with
\* it, load() ends and the operation goes on after its await.
PartLoads(a, part, g) ==
  /\ a \in DOMAIN loads /\ loads[a][part] = "pending"
  /\ loads' = [loads EXCEPT ![a][part] = "ok"]
  /\ IF AllLoaded(loads'[a])
     THEN \/ BuyRanger(a, loads[a].pos)
          \/ BuyJeep(a)
          \/ BuyAnimal(a, loads[a].pos, g)
          \/ SpawnPoacherDone(a, loads[a].pos)
     ELSE /\ last' = [op |-> "part", who |-> a]
          /\ UNCHANGED <<roadVars, agentVars, cacheVars, tourVars, shopVars>>
  /\ UNCHANGED <<game, jsonCache, fetches>>

\* Map.tick as far as the roster goes: every agent of the roster acts, and
\* the dispatch, when the park is open with a path and four visitors wait,
\* moves the first waiting jeep to the roster.
LoadTick(dispatch) ==
  /\ sprites # <<>> \/ (dispatch /\ waitingJeeps # <<>>)
  /\ IF dispatch /\ waitingJeeps # <<>>
     THEN /\ sprites' = Append(sprites, Head(waitingJeeps))
          /\ waitingJeeps' = Tail(waitingJeeps)
     ELSE UNCHANGED <<sprites, waitingJeeps>>
  /\ last' = [op |-> "tick", acted |-> sprites]
  /\ UNCHANGED <<roadVars, attr, cacheVars, waitingVisitors, totalVisitorCount, shopVars,
                 restVars>>

InitLoad ==
  /\ IdleRoads(ShopW, ShopH)
  /\ IdleAgents
  /\ IdleCache
  /\ IdleTours
  /\ IdleShop
  /\ IdleGame
  /\ IdleLoads
  /\ last = NoOp

NextLoad ==
  \/ \E a \in LoadAgents, p \in LoadPositions : StartLoad(a, p)
  \/ \E a \in LoadAgents, part \in LoadParts : PartFails(a, part)
  \/ \E a \in LoadAgents, part \in LoadParts, g \in {1} : PartLoads(a, part, g)
  \/ \E dispatch \in BOOLEAN : LoadTick(dispatch)

SpecLoad == InitLoad /\ [][NextLoad]_vars

\* C30: every agent in the roster or in the queue of waiting jeeps has both
\* parts of its load done, so an agent whose load failed or is under way is
\* in neither; and every agent a tick lets act had its load done.
C30_LoadedBeforeTicked ==
  /\ \A a \in Range(sprites) \cup Range(waitingJeeps) :
        a \in DOMAIN loads /\ loads[a].draw = "ok" /\ loads[a].json = "ok"
  /\ last.op = "tick" =>
        \A a \in Range(last.acted) : loads[a].draw = "ok" /\ loads[a].json = "ok"

\* A tick lets a loaded agent act while another agent has one part loaded
\* and the other failed, and a third has one part loaded and the other
\* under way.
C30_Witness ==
  /\ last.op = "tick" /\ last.acted # <<>>
  /\ \E b, c \in DOMAIN loads :
        /\ AnyLoaded(loads[b]) /\ \E part \in LoadParts : loads[b][part] = "failed"
        /\ AnyLoaded(loads[c]) /\ \E part \in LoadParts : loads[c][part] = "pending"

(***************************************************************************)
(* Grazing: one herbivore on a strip with bushes.  Herbivore.fillFoodLevel *)
(* (src/sprites/poacher.ts) emits tileEatenSignal for the tiles it eats;   *)
(* the handler of the Map (src/map.ts 165-173) creates the fallback tile,  *)
(* awaits its load and places it.  The placements that wait for their load *)
(* are the entries of loads, in the order of their events.                 *)
(***************************************************************************)
GrazeStrip == <<"entrance", "bush", "bush", "exit">>
GrazeTiles == [c \in Cells(StripW, 1) |-> GrazeStrip[c[1] + 1]]

\* The cells of the strip that hold an edible tile at the start.
GrazeCells == {c \in Cells(StripW, 1) : IsEdible(GrazeTiles[c])}

\* The most placements that wait for their load at a time.
MaxPending == 2

\* dt of an act, and the draws of Math.random of an act: the thirst falls by
\* less than a point per act, the hunger by a point per time unit or by less
\* than a point per act.
GrazeDts == {10}
GrazeDraws == [hr : {0}, fr : {0, 1}, pick : Picks, rest : RestTimes]

\* Map.placeTile that leaves the grid as it is.
PlaceTileNowhere(tl, cell, kind) == tl

\* Map.placeTile
PlaceTile(tl, cell, kind) == [tl EXCEPT ![cell] = kind]

\* The handler of tileEatenSignal up to its await: the fallback tiles that
\* createTile makes for the eaten tiles.
FallbackLoads(eaten) ==
  LET made == SelectSeq(eaten, LAMBDA e : CreateTile(FallbackOf[e.kind]) # "none")
  IN  [i \in 1..Len(made) |-> [cell |-> made[i].cell,
                               kind |-> CreateTile(FallbackOf[made[i].kind])]]

\* Map.tick of the strip: the herbivore acts, and the handlers of the tiles
\* it ate start the loads of their fallback tiles.
GrazeTick(dt, rnd) ==
  /\ sprites # <<>>
  /\ \E a \in {sprites[1]},
        st1 \in {ActAnimal(TickState(PruneCache(cache, TimeUnit * dt)), sprites[1], dt, rnd)} :
         /\ Len(loads) + Len(st1.eaten) <= MaxPending
         /\ sprites' = st1.sprites
         /\ attr' = [b \in Range(st1.sprites) |-> st1.attr[b]]
         /\ cache' = st1.cache
         /\ loads' = loads \o FallbackLoads(st1.eaten)
         /\ last' = [op |-> "graze", who |-> a,
                     captured |-> attr[a].captured,
                     arrived |-> a \in Range(st1.fed) \/ (attr[a].captured /\ a \in st1.dead),
                     fed |-> a \in Range(st1.fed),
                     pos |-> st1.attr[a].pos,
                     stood |-> CellOf(st1.attr[a].pos),
                     stoodKind |-> tiles[CellOf(st1.attr[a].pos)],
                     held |-> Seen(st1.attr[a]),
                     foodBefore |-> attr[a].food,
                     food |-> st1.attr[a].food,
                     eaten |-> st1.eaten]
  /\ UNCHANGED <<roadVars, cacheAge, tourVars, shopVars, game, jsonCache, fetches>>

\* The load of the oldest fallback tile is done: the rest of the handler of
\* tileEatenSignal places the tile.
TilePlaced ==
  /\ loads # <<>>
  /\ tiles' = PlaceTile(tiles, Head(loads).cell, Head(loads).kind)
  /\ loads' = Tail(loads)
  /\ last' = [op |-> "placed", cell |-> Head(loads).cell, kind |-> Head(loads).kind,
              was |-> tiles[Head(loads).cell]]
  /\ UNCHANGED <<paths, isOpen, agentVars, cacheVars, tourVars, shopVars, game,
                 jsonCache, fetches>>

InitGraze ==
  /\ tiles = GrazeTiles /\ paths = <<>> /\ isOpen = FALSE
  /\ IdleAgents
  /\ IdleCache
  /\ IdleTours
  /\ IdleShop
  /\ IdleGame
  /\ IdleLoads
  /\ last = NoOp

NextGraze ==
  \/ \E dt \in GrazeDts, rnd \in GrazeDraws : GrazeTick(dt, rnd)
  \/ \E p \in StripPositions : AnimalAdd("herbivore", p)
  \/ AnimalCapture
  \/ TilePlaced

\* The continuation of an awaited load runs once the load is done, and the
\* data of every tile kind is in the JSON cache since the map was loaded.
SpecGraze == InitGraze /\ [][NextGraze]_vars /\ WF_vars(TilePlaced)

\* The cells within half a cell of a position (|dx| <= 0.5, |dy| < 0.5).
CellsNear(pos) ==
  {c \in Cells(StripW, 1) : /\ Abs(Half * c[1] - pos[1]) * 2 <= Half
                            /\ Abs(Half * c[2] - pos[2]) * 2 < Half}

\* The eating of the last act as the arrival of an uncaptured herbivore has
\* it: the tiles eaten are the edible ones among the tiles it holds for the
\* cells near it, and eating fills the food level.
GrazeEats ==
  last.op = "graze" =>
    /\ {e.cell : e \in Range(last.eaten)} =
         IF last.fed
         THEN {c \in CellsNear(last.pos) \cap DOMAIN last.held : IsEdible(last.held[c])}
         ELSE {}
    /\ \A e \in Range(last.eaten) :
          e.cell \in GrazeCells /\ e.kind = last.held[e.cell] /\ e.kind = GrazeTiles[e.cell]
    /\ last.eaten # <<>> => last.food = Full
    /\ (last.arrived /\ ~last.captured /\ IsEdible(last.stoodKind)) =>
          last.stood \in {e.cell : e \in Range(last.eaten)}
    /\ Len(loads) >= Len(last.eaten)
    /\ \A i \in 1..Len(last.eaten) :
          loads[Len(loads) - Len(last.eaten) + i] =
            [cell |-> last.eaten[i].cell, kind |-> FallbackOf[last.eaten[i].kind]]

\* Placing a tile changes the cell of the tile and no other, and the grid
\* keeps one tile for each cell.
PlacesOneTile ==
  last'.op = "placed" =>
    /\ DOMAIN tiles' = DOMAIN tiles
    /\ tiles'[last'.cell] = last'.kind
    /\ \A c \in DOMAIN tiles : c # last'.cell => tiles'[c] = tiles[c]

C24_WitnessStale ==
  /\ last.op = "graze" /\ last.eaten # <<>>
  /\ \E e \in Range(last.eaten) : e.kind = "bush" /\ tiles[e.cell] = "sand"

(***************************************************************************)
(* Map.getAllDrawData (src/map.ts 514-595) on a map with an animal and a   *)
(* poacher.  The draw data of a tile stands as its cell, that of a sprite  *)
(* as its id.  The tile data files are not among the sources: here a road  *)
(* is the kind that is flagged always-visible.                             *)
(***************************************************************************)
DrawW == 3
DrawH == 2
IsAlwaysVisible(kind) == kind = "road"

\* The cells in the order of the loops over i and j, and the offsets in the
\* order of the loops over dx and dy.
DrawOrder(w, h) == [k \in 1..(w * h) |-> <<(k - 1) \div h, (k - 1) % h>>]
Offsets == [k \in 1..9 |-> <<((k - 1) \div 3) - 1, ((k - 1) % 3) - 1>>]

TileData(c) == [cell |-> c, sprite |-> "none"]
SpriteData(a) == [cell |-> <<>>, sprite |-> a]

\* if (sprite instanceof Poacher) { if (sprite.isVisible) push } else push
PushSprite(out, at, a) ==
  IF at[a].kind = "poacher" /\ ~at[a].isVisible THEN out ELSE Append(out, SpriteData(a))

\* The day branch
DayDrawData(tl, w, h, sprs, at) ==
  LET order == DrawOrder(w, h)
      tileDatas == [k \in 1..Len(order) |-> TileData(order[k])]
      shown == SelectSeq(sprs, LAMBDA a : ~(at[a].kind = "poacher" /\ ~at[a].isVisible))
  IN  tileDatas \o [k \in 1..Len(shown) |-> SpriteData(shown[k])]

\* The loop over the sprites for the cell n that was just included, from the
\* sprite with index k on; acc holds drawDatas and included, whose keys of
\* cells ("x,y") and of sprites (the registration number) are kept apart.
RECURSIVE NightSprites(_, _, _, _, _)
NightSprites(acc, sprs, at, n, k) ==
  IF k > Len(sprs) THEN acc
  ELSE LET a == sprs[k]
       IN  IF at[a].kind = "animal" /\ at[a].hasChip /\ a \notin acc.ids
           THEN NightSprites([acc EXCEPT !.out = Append(@, SpriteData(a))], sprs, at, n, k + 1)
           ELSE IF CellOf(at[a].pos) # n \/ a \in acc.ids
           THEN NightSprites(acc, sprs, at, n, k + 1)
           ELSE NightSprites([acc EXCEPT !.ids = @ \cup {a},
                                         !.out = PushSprite(@, at, a)],
                             sprs, at, n, k + 1)

\* The loops over dx and dy around the always-visible cell c, from the
\* offset with index k on.
RECURSIVE NightNeighbours(_, _, _, _, _, _, _)
NightNeighbours(acc, w, h, sprs, at, c, k) ==
  IF k > Len(Offsets) THEN acc
  ELSE LET n == <<c[1] + Offsets[k][1], c[2] + Offsets[k][2]>>
       IN  IF n \notin Cells(w, h) \/ n \in acc.cells
           THEN NightNeighbours(acc, w, h, sprs, at, c, k + 1)
           ELSE NightNeighbours(
                  NightSprites([acc EXCEPT !.out = Append(@, TileData(n)),
                                           !.cells = @ \cup {n}],
                               sprs, at, n, 1),
                  w, h, sprs, at, c, k + 1)

\* The loops over i and j, from the cell with index k on.
RECURSIVE NightCells(_, _, _, _, _, _, _)
NightCells(acc, tl, w, h, sprs, at, k) ==
  IF k > w * h THEN acc
  ELSE IF ~IsAlwaysVisible(tl[DrawOrder(w, h)[k]])
       THEN NightCells(acc, tl, w, h, sprs, at, k + 1)
       ELSE NightCells(NightNeighbours(acc, w, h, sprs, at, DrawOrder(w, h)[k], 1),
                       tl, w, h, sprs, at, k + 1)

\* Map.getAllDrawData
GetAllDrawData(tl, w, h, sprs, at, isNight) ==
  IF ~isNight THEN DayDrawData(tl, w, h, sprs, at)
  ELSE NightCells([out |-> <<>>, cells |-> {}, ids |-> {}], tl, w, h, sprs, at, 1).out

DrawAgents == {"z", "p"}
DrawKind == [z |-> "animal", p |-> "poacher"]
DrawMaps ==
  {tl \in [Cells(DrawW, DrawH) -> {"sand", "road", "entrance", "exit"}] :
     /\ tl[<<0, 0>>] = "entrance"
     /\ tl[<<DrawW - 1, DrawH - 1>>] = "exit"
     /\ \A c \in Cells(DrawW, DrawH) \ {<<0, 0>>, <<DrawW - 1, DrawH - 1>>} :
           tl[c] \in {"sand", "road"}}
DrawPositions == {<<1, 0>>, <<Half * (DrawW - 1), Half * (DrawH - 1)>>}
DrawRosters == {<<>>, <<"z">>, <<"p">>, <<"z", "p">>, <<"p", "z">>}

\* The frame loop asks for the draw data of the map.
Draw(isNight) ==
  /\ last' = [op |-> "draw", isNight |-> isNight,
              drawDatas |-> GetAllDrawData(tiles, DrawW, DrawH, sprites, attr, isNight)]
  /\ UNCHANGED <<roadVars, agentVars, cacheVars, tourVars, shopVars, restVars>>

InitDraw ==
  /\ tiles \in DrawMaps /\ paths = <<>> /\ isOpen = FALSE
  /\ sprites \in DrawRosters
  /\ attr \in [Range(sprites) -> [kind : {"animal", "poacher"}, pos : DrawPositions,
                                  hasChip : BOOLEAN, isVisible : BOOLEAN]]
  /\ \A a \in Range(sprites) :
        /\ attr[a].kind = DrawKind[a]
        /\ attr[a].hasChip => attr[a].kind = "animal"
        /\ attr[a].isVisible => attr[a].kind = "poacher"
  /\ IdleCache
  /\ IdleTours
  /\ IdleShop
  /\ IdleGame
  /\ IdleLoads
  /\ last = NoOp

NextDraw == \E isNight \in BOOLEAN : Draw(isNight)

SpecDraw == InitDraw /\ [][NextDraw]_vars

\* The cells of the always-visible tiles and of their 8 neighbours.
LitCells ==
  {n \in Cells(DrawW, DrawH) :
     \E c \in Cells(DrawW, DrawH) :
        /\ IsAlwaysVisible(tiles[c])
        /\ Abs(n[1] - c[1]) <= 1 /\ Abs(n[2] - c[2]) <= 1}

\* The draw data the night mode is to return.
NightExpected ==
  {TileData(c) : c \in LitCells}
  \cup {SpriteData(a) : a \in {b \in Range(sprites) :
          \/ attr[b].kind = "animal" /\ attr[b].hasChip
          \/ /\ CellOf(attr[b].pos) \in LitCells
             /\ (attr[b].kind = "poacher" => attr[b].isVisible)}}

\* C31: in night mode getAllDrawData returns, without duplicates, exactly
\* the draw data of the tiles that are always-visible or next to one, of the
\* agents on those cells (poachers only when visible) and of every chipped
\* animal, wherever it stands.
C31_NightDrawData ==
  (last.op = "draw" /\ last.isNight) =>
    /\ Range(last.drawDatas) = NightExpected
    /\ \A i, j \in 1..Len(last.drawDatas) :
          last.drawDatas[i] = last.drawDatas[j] => i = j

\* The night draw data without the chipped animals is as C31 has it.
NightUnchipped ==
  (last.op = "draw" /\ last.isNight) =>
    LET rest == SelectSeq(last.drawDatas, LAMBDA d :
                  ~(d.sprite # "none" /\ attr[d.sprite].kind = "animal"
                                      /\ attr[d.sprite].hasChip))
    IN  /\ Range(rest) = {d \in NightExpected :
                            ~(d.sprite # "none" /\ attr[d.sprite].hasChip)}
        /\ \A i, j \in 1..Len(rest) : rest[i] = rest[j] => i = j

\* A chipped animal is in the night draw data once for every cell drawn.
ChippedPerCell ==
  (last.op = "draw" /\ last.isNight) =>
    \A a \in Range(sprites) :
       (attr[a].kind = "animal" /\ attr[a].hasChip) =>
          Cardinality({i \in 1..Len(last.drawDatas) : last.drawDatas[i] = SpriteData(a)})
            = Cardinality(LitCells)

(***************************************************************************)
(* C32                                                                     *)
(***************************************************************************)
\* The shots of the last tick that a resolved.
ShotsBy(shots, a) == SelectSeq(shots, LAMBDA x : x.by = a)

\* The bullet timer of a over a tick of the roster it is in: 1 time unit
\* less the dt of the acts since its last shot in which it had a target.
TimerStep(a) ==
  LET mine == ShotsBy(last'.shots, a)
  IN  /\ Len(mine) <= 1
      /\ attr'[a].bulletTimer \in 1..TimeUnit
      /\ mine # <<>> =>
           /\ attr[a].bulletTimer - last'.dt <= 0
           /\ mine[1].at # "none"
           /\ attr'[a].bulletTimer = TimeUnit
      /\ mine = <<>> =>
           \/ attr'[a].bulletTimer = attr[a].bulletTimer
           \/ /\ attr'[a].bulletTimer = attr[a].bulletTimer - last'.dt
              /\ attr'[a].shootingAt # "none"

\* C32: a ranger or poacher resolves a shot only in an act in which it has a
\* target and its bullet timer less dt is at most 0, and the timer is then
\* set to 1 time unit; the timer falls only in acts with a target, by dt, so
\* at least 1 time unit of dt lies between two shots of a shooter, and an
\* act resolves at most one shot.
C32_BulletTimer ==
  [][last'.op = "hunt" =>
       \A a \in Range(sprites) :
          attr[a].kind \in {"ranger", "poacher"} => TimerStep(a)]_vars

\* A shot at the end of a tick of half a time unit: the timer had run for
\* more than one act.
C32_Witness ==
  /\ last.op = "hunt" /\ last.dt < TimeUnit
  /\ \E i \in 1..Len(last.shots) : attr[last.shots[i].by].bulletTimer = TimeUnit

(***************************************************************************)
(* C33                                                                     *)
(***************************************************************************)
\* C33: an agent that has been removed from the roster does not act again,
\* in the same tick or later: every shot of a tick is resolved by a shooter
\* that is in the roster when it shoots.
C33_RemovedNeverActs ==
  last.op = "hunt" =>
    \A i \in 1..Len(last.shots) :
       last.shots[i].by \in Range(last.shots[i].rosterBefore)

\* The agents that act in a tick are those of the roster at its start: an
\* agent removed in an earlier tick resolves no shot.
RemovedBeforeTickIdle ==
  [][last'.op = "hunt" =>
       \A i \in 1..Len(last'.shots) : last'.shots[i].by \in Range(sprites)]_vars

(***************************************************************************)
(* C34                                                                     *)
(***************************************************************************)
\* C34: the visible sprites an agent holds after a request, answered from
\* the cache or computed, never include the agent itself.
C34_StoredNeverSelf ==
  \A a \in DOMAIN attr : a \notin Range(attr[a].visibleSprites)

\* An entry of the cache lists no agent twice, and a list computed for a
\* request (a forced one, or one that finds no entry) leaves the asker out.
ComputedNeverSelf ==
  [][\A a \in DOMAIN attr' :
       (last'.op = "add" /\ a \notin DOMAIN attr /\ Len(cache') > Len(cache))
         => a \notin Range(attr'[a].visibleSprites)]_vars

(***************************************************************************)
(* C35: the age of what a shooter sees.  The slice is the cache slice with *)
(* a ranger "r", whose act opens with a request in every tick (Ranger.act, *)
(* part_005 71-72), and another agent "b".  The record of a removed agent  *)
(* counts the simulated time since its removal in goneFor, up to 1 time    *)
(* unit; the program keeps no such count.                                  *)
(***************************************************************************)
StaleAgents == {"r", "b"}

\* The acts of the ranger make a request, those of the other agent may.
StalePlans(a) == IF a = "r" THEN ActPlans \ {"idle"} ELSE ActPlans

\* Map.tick on the cache slice
StaleTick(dt, plan) ==
  /\ sprites # <<>>
  /\ \E st1 \in {CacheActs([sprites |-> sprites, attr |-> attr,
                            cache |-> PruneCache(cache, dt), tiles |-> tiles,
                            touched |-> {}, replaced |-> FALSE],
                           sprites, plan, CacheW, CacheH)} :
        /\ cache' = st1.cache
        /\ sprites' = st1.sprites
        /\ attr' = [a \in DOMAIN attr |->
                      IF a \in Range(sprites) THEN st1.attr[a]
                      ELSE [attr[a] EXCEPT !.goneFor = Min(TimeUnit, @ + dt)]]
        /\ cacheAge' = AgeAfter(cacheAge, dt, st1.touched)
  /\ last' = [op |-> "tick", dt |-> dt]
  /\ UNCHANGED <<roadVars, tourVars, shopVars, restVars>>

\* A new agent: constructor, Sprite.load, Map.addSprite.
StaleAdd(a, p) ==
  /\ a \notin DOMAIN attr
  /\ \E st1 \in {UpdateVisibles([sprites |-> sprites,
                                 attr |-> (a :> [pos |-> p, base |-> 1, hill |-> FALSE,
                                                 visibleTiles |-> <<>>, visibleKinds |-> <<>>,
                                                 visibleSprites |-> <<>>, goneFor |-> 0]) @@ attr,
                                 cache |-> cache, tiles |-> tiles, touched |-> {},
                                 replaced |-> FALSE],
                                a, FALSE, CacheW, CacheH)} :
        /\ cache' = st1.cache
        /\ attr' = st1.attr
        /\ sprites' = Append(sprites, a)
        /\ cacheAge' = AgeAfter(cacheAge, 0, st1.touched)
  /\ last' = [op |-> "add"]
  /\ UNCHANGED <<roadVars, tourVars, shopVars, restVars>>

\* Map.removeSprite of the other agent on a death signal or a sale.
StaleRemove(a) ==
  /\ a \in Range(sprites) /\ a # "r"
  /\ sprites' = RemoveSprite(sprites, a)
  /\ last' = [op |-> "remove"]
  /\ UNCHANGED <<roadVars, attr, cacheVars, tourVars, shopVars, restVars>>

InitStale ==
  /\ IdleRoads(CacheW, CacheH)
  /\ IdleAgents
  /\ IdleCache
  /\ IdleTours
  /\ IdleShop
  /\ IdleGame
  /\ IdleLoads
  /\ last = NoOp

NextStale ==
  \/ \E dt \in DtChoices, plan \in [Range(sprites) -> ActPlans] :
        /\ \A a \in Range(sprites) : plan[a] \in StalePlans(a)
        /\ StaleTick(dt, plan)
  \/ \E a \in StaleAgents, p \in CachePositions : StaleAdd(a, p)
  \/ \E a \in StaleAgents : StaleRemove(a)

SpecStale == InitStale /\ [][NextStale]_vars

\* C35: once 1 time unit has passed since an agent was removed from the
\* roster, a ranger that makes a request in every tick does not have it
\* among its visible sprites, whatever the dt of the ticks.
C35_BoundedStaleness ==
  ("r" \in Range(sprites)) =>
     \A b \in DOMAIN attr \ Range(sprites) :
        attr[b].goneFor >= TimeUnit => b \notin Range(attr["r"].visibleSprites)

\* With ticks of a whole time unit the claim of C35 holds: the pruning of
\* the tick evicts every entry, and the ranger's request is computed.
WholeTickFresh ==
  [][(last'.op = "tick" /\ last'.dt >= TimeUnit /\ "r" \in Range(sprites)) =>
       \A b \in DOMAIN attr \ Range(sprites) :
          b \notin Range(attr'["r"].visibleSprites)]_vars

(***************************************************************************)
(* C36: the roads of an open park.  A strip with an entrance, two bushes   *)
(* and an exit, one herbivore, and the operations that write tiles: each   *)
(* of SafariModel.buyTile (part_003 1716-1737), the handler of             *)
(* tileEatenSignal (map.ts 165-173) and Map.tileGeneration (map.ts         *)
(* 258-275) awaits the load of its new tile before it places it; the       *)
(* entries of loads are the calls that wait, which resume in any order.    *)
(* The balance is left to SpecShop: every purchase is affordable.          *)
(***************************************************************************)
ParkPending == 2
ParkKinds == {"road", "sand"}
ParkDraws == [hr : {0}, fr : {0}, pick : {25}, rest : {50}]

\* The cell of the attempt of tileGeneration in a tick, <<>> in a tick whose
\* plant timer has not run out.
PlantDraws == {<<>>, <<1, 0>>}

\* The calls that start to wait in a tick: the handlers of the eaten tiles,
\* and tileGeneration when its cell holds sand.
TickLoads(eaten, plantAt) ==
  LET made == FallbackLoads(eaten)
  IN  [i \in 1..Len(made) |-> [op |-> "fallback", cell |-> made[i].cell,
                               kind |-> made[i].kind, old |-> "none"]]
      \o (IF plantAt # <<>> /\ tiles[plantAt] = "sand"
          THEN <<[op |-> "plant", cell |-> plantAt, kind |-> "bush", old |-> "sand"]>>
          ELSE <<>>)

\* The roster and the agents after the acts of a tick.
ParkActed(dt, rnd) ==
  IF sprites = <<>> THEN TickState(PruneCache(cache, TimeUnit * dt))
  ELSE ActAnimal(TickState(PruneCache(cache, TimeUnit * dt)), sprites[1], dt, rnd)

\* Map.tick: the herbivore acts, then generatePlants.
ParkTick(dt, rnd, plantAt) ==
  /\ \E st1 \in {ParkActed(dt, rnd)} :
         /\ Len(loads) + Len(TickLoads(st1.eaten, plantAt)) <= ParkPending
         /\ sprites' = st1.sprites
         /\ attr' = [b \in Range(st1.sprites) |-> st1.attr[b]]
         /\ cache' = st1.cache
         /\ loads' = loads \o TickLoads(st1.eaten, plantAt)
         /\ last' = [op |-> "tick", eaten |-> st1.eaten]
  /\ UNCHANGED <<roadVars, cacheAge, tourVars, shopVars, game, jsonCache, fetches>>

\* SafariModel.buyTile up to `await tile.load()`
BuyTileStarts(kind, c) ==
  /\ Len(loads) < ParkPending
  /\ loads' = IF kind \in {"entrance", "exit"} \/ (kind = "road" /\ isOpen) THEN loads
              ELSE Append(loads, [op |-> "buy", cell |-> c, kind |-> kind, old |-> tiles[c]])
  /\ last' = [op |-> "buyTile", kind |-> kind, cell |-> c]
  /\ UNCHANGED <<roadVars, agentVars, cacheVars, tourVars, shopVars, game, jsonCache, fetches>>

\* The tests of buyTile after the await, on the tile it read before.
BuyGoesOn(e) ==
  /\ e.old \notin {"entrance", "exit"}
  /\ ~(e.old = "road" /\ isOpen)
  /\ e.old # e.kind

\* A load is done: the call that waited for it goes on and places its tile.
ParkLoaded(i) ==
  /\ i \in 1..Len(loads)
  /\ tiles' = IF loads[i].op = "buy" /\ ~BuyGoesOn(loads[i]) THEN tiles
              ELSE PlaceTile(tiles, loads[i].cell, loads[i].kind)
  /\ loads' = Splice(loads, i)
  /\ last' = [op |-> "placed", by |-> loads[i].op, cell |-> loads[i].cell,
              kind |-> loads[i].kind, was |-> tiles[loads[i].cell]]
  /\ UNCHANGED <<paths, isOpen, agentVars, cacheVars, tourVars, shopVars, game,
                 jsonCache, fetches>>

\* The setter of SafariModel.isOpen
ParkSetOpen(value) ==
  /\ SetOpen(value, StripW, 1)
  /\ UNCHANGED <<agentVars, cacheVars, tourVars, shopVars, restVars>>

InitPark ==
  /\ tiles = GrazeTiles /\ paths = <<>> /\ isOpen = FALSE
  /\ IdleAgents
  /\ IdleCache
  /\ IdleTours
  /\ IdleShop
  /\ IdleGame
  /\ IdleLoads
  /\ last = NoOp

NextPark ==
  \/ \E dt \in GrazeDts, rnd \in ParkDraws, plantAt \in PlantDraws : ParkTick(dt, rnd, plantAt)
  \/ \E p \in {<<3, 0>>} : AnimalAdd("herbivore", p)
  \/ \E kind \in ParkKinds, c \in GrazeCells : BuyTileStarts(kind, c)
  \/ \E i \in 1..ParkPending : ParkLoaded(i)
  \/ \E value \in BOOLEAN : ParkSetOpen(value)

SpecPark == InitPark /\ [][NextPark]_vars

\* C36: while the park is open there is a stored path, and every cell of
\* every stored path holds a road, the entrance or the exit.
C36_OpenParkHasRoads ==
  isOpen =>
    /\ paths # <<>>
    /\ \A i \in 1..Len(paths) : \A c \in Range(paths[i]) : IsRoadLike(tiles[c])

\* The placements that break a path of the open park.
RoadLostTo(by) ==
  /\ isOpen /\ last.op = "placed" /\ last.by = by /\ last.was = "road"
  /\ ~IsRoadLike(tiles[last.cell])
  /\ \E i \in 1..Len(paths) : last.cell \in Range(paths[i])

(***************************************************************************)
(* C37: two rangers and a poacher on the strip of the hunt.                *)
(***************************************************************************)
BountyRangers == {"r", "s"}
BountyDts == {TimeUnit}
BountyPlaces == {<<0, 0>>}

\* The draws of an act: the first of the tiles in view as a place to go to,
\* the least multiplier of a bounty, and a hit or a miss.
BountyDraws == [pick : {0}, hit : BOOLEAN, coin : {FALSE}, rest : HuntRests, mult : {800}]

\* SafariModel.buyRanger at a cell of the map, with the balance left to
\* SpecShop.
BountyBuyRanger(a, p) ==
  /\ a \notin DOMAIN attr
  /\ \E st \in {HuntLoaded(a, NewShooter("ranger", p))} :
         /\ cache' = st.cache
         /\ attr' = st.attr
         /\ sprites' = Append(sprites, a)
  /\ last' = [op |-> "buy", what |-> "ranger", tooDear |-> FALSE]
  /\ UNCHANGED <<roadVars, cacheAge, tourVars, shopVars, restVars>>

InitBounty ==
  /\ tiles = HuntTiles /\ paths = <<>> /\ isOpen = FALSE
  /\ IdleAgents
  /\ IdleCache
  /\ IdleTours
  /\ IdleShop
  /\ IdleGame
  /\ IdleLoads
  /\ last = NoOp

NextBounty ==
  \/ \E dt \in BountyDts, rnd \in [Range(sprites) -> BountyDraws] :
       /\ \A a \in Range(sprites) : Consumed(a, dt, rnd[a])
       /\ HuntTick(dt, rnd)
  \/ \E a \in BountyRangers, p \in BountyPlaces : BountyBuyRanger(a, p)
  \/ \E p \in BountyPlaces : HuntSpawnPoacher(p)
  \/ \E a \in BountyRangers : HuntChase(a, "p")

SpecBounty == InitBounty /\ [][NextBounty]_vars

\* C37: a target that has been killed pays no further bounty: a shot at a
\* target that is not in the roster adds nothing to the balance, and the
\* shots of a tick pay at most one bounty for a target.
C37_OneBountyPerTarget ==
  last.op = "hunt" =>
    /\ \A i \in 1..Len(last.shots) :
          last.shots[i].at \notin Range(last.shots[i].rosterBefore)
            => last.shots[i].bounty = 0
    /\ \A i, j \in 1..Len(last.shots) :
          (/\ last.shots[i].at = last.shots[j].at
           /\ last.shots[i].bounty > 0 /\ last.shots[j].bounty > 0) => i = j

\* Two rangers have each been paid the bounty of the one poacher in one
\* tick.
PaidTwice ==
  /\ last.op = "hunt"
  /\ \E i, j \in 1..Len(last.shots) :
        /\ i < j /\ last.shots[i].at = "p" /\ last.shots[j].at = "p"
        /\ last.shots[i].bounty > 0 /\ last.shots[j].bounty > 0

(***************************************************************************)
(* C38: a ranger, a poacher and a carnivore on the strip of the hunt.  The *)
(* poacher captures the carnivore, and the player may order the ranger to  *)
(* chase the carnivore or the poacher.                                     *)
(***************************************************************************)
CaptiveKind == [r |-> "ranger", p |-> "poacher", c |-> "carnivore"]
CaptivePlaces == {<<0, 0>>}
CaptiveDraws == [pick : {0}, hit : BOOLEAN, coin : {FALSE}, rest : HuntRests, mult : {800}]
CaptiveAnimalDraws == [hr : {0}, fr : {0}, pick : {0}, rest : RobAnimalRests]

\* Map.addSprite of a bought ranger or carnivore and of a spawned poacher,
\* once the sprite's data is loaded.
CaptiveAdd(a, p) ==
  /\ a \notin DOMAIN attr
  /\ \E st \in {HuntLoaded(a, IF CaptiveKind[a] = "carnivore"
                              THEN [NewAnimal("carnivore", p) EXCEPT
                                      !.speed = RobAnimalSpeed, !.base = ShooterView]
                              ELSE NewShooter(CaptiveKind[a], p))} :
         /\ cache' = st.cache
         /\ attr' = st.attr
         /\ sprites' = Append(sprites, a)
  /\ last' = [op |-> "addSprite", sprite |-> a]
  /\ UNCHANGED <<roadVars, cacheAge, tourVars, shopVars, restVars>>

InitCaptive ==
  /\ tiles = HuntTiles /\ paths = <<>> /\ isOpen = FALSE
  /\ IdleAgents
  /\ IdleCache
  /\ IdleTours
  /\ IdleShop
  /\ IdleGame
  /\ IdleLoads
  /\ last = NoOp

\* The draws an agent's act can consume, by its class.
CaptiveDrawsOf(a) ==
  IF IsAnAnimal(attr[a]) THEN CaptiveAnimalDraws ELSE CaptiveDraws

\* Map.tick with the draws of this slice.
CaptiveTick ==
  \E dt \in RobDts :
    \E rnd \in {f \in [Range(sprites) -> CaptiveDraws \cup CaptiveAnimalDraws] :
                  \A a \in Range(sprites) :
                     f[a] \in CaptiveDrawsOf(a) /\ RobConsumed(a, dt, f[a])} :
      RobTick(dt, rnd)

NextCaptive ==
  \/ CaptiveTick
  \/ \E a \in DOMAIN CaptiveKind, p \in CaptivePlaces : CaptiveAdd(a, p)
  \/ \E t \in {"c", "p"} : HuntChase("r", t)

\* Map.tick is called for every frame of the running game: weak fairness of
\* the tick, which is enabled whenever the roster is not empty.
SpecCaptive ==
  /\ InitCaptive /\ [][NextCaptive]_vars
  /\ ([]<>(sprites = <<>>) \/ []<><<CaptiveTick>>_vars)

\* The captured animals of the roster.
Captives == {a \in Range(sprites) : IsAnAnimal(attr[a]) /\ attr[a].captured}

\* C38: a captured animal keeps the exit of the map as its path target and
\* its food and hydration, and it does not stay in the roster for ever: it
\* reaches the exit or is killed by a shot.
C38_CapturedLeaves ==
  /\ [](\A a \in Captives :
          /\ attr[a].pathTo = TilePos(ExitCell(HuntW, 1))
          /\ attr[a].food = Full /\ attr[a].hyd = Full)
  /\ ("c" \in Captives) ~> ("c" \notin Range(sprites))

\* The second half of C38 alone.
CapturedRemoved == ("c" \in Captives) ~> ("c" \notin Range(sprites))

\* The captured carnivore stands without path target and nobody of the
\* roster shoots at it, chases it or robs it.
Forsaken ==
  /\ "c" \in Captives /\ attr["c"].pathTo = <<>>
  /\ \A a \in Range(sprites) \ {"c"} :
        /\ attr[a].shootingAt # "c"
        /\ attr[a].chasing # "c"
        /\ attr[a].robbing # "c"

\* No tick ends the standstill of a forsaken animal or removes it.
ForsakenStays ==
  [][(Forsaken /\ last'.op = "rob")
       => (Forsaken' /\ attr'["c"].pos = attr["c"].pos)]_vars

\* A captured animal has been shot at and missed.
CaptiveMissed ==
  /\ "c" \in Captives /\ attr["c"].pathTo = <<>>
  /\ last.op = "rob"
  /\ \E i \in 1..Len(last.shots) : last.shots[i].at = "c" /\ ~last.shots[i].hit

----------------------------------------------------------------------------
(***************************************************************************)
(* C39: groups and species.  Map.loadMap generates a herbivore and a       *)
(* carnivore, both constructed with group 0; the player then buys animals. *)
(***************************************************************************)
HerdSpecies == [herbivore |-> {"safari:zebra", "safari:giraffe"},
                carnivore |-> {"safari:lion"}]
HerdIds == HerdSpecies["herbivore"] \cup HerdSpecies["carnivore"]
HerdGenerated == <<"g1", "g2">>
HerdBought == {"b1", "b2"}

\* Math.floor(Math.random() * 1000000)
HerdGroupIds == {0, 1}

\* The class of a species id: the registry that holds it.
ClassOf(id) == IF id \in HerdSpecies["herbivore"] THEN "herbivore" ELSE "carnivore"

\* createHerbivore(id, x, y, group) and createCarnivore(id, x, y, group); the
\* group of the constructor is 0 when none is passed.
CreateAnimal(id, p, group) ==
  [kind |-> ClassOf(id), species |-> id, pos |-> p, base |-> 1, hill |-> FALSE,
   visibleTiles |-> <<>>, visibleKinds |-> <<>>, visibleSprites |-> <<>>,
   group |-> group, hasChip |-> FALSE]

\* Sprite.load of the animal r just constructed.
HerdLoaded(a, r) ==
  UpdateVisibles([sprites |-> sprites, attr |-> (a :> r) @@ attr,
                  cache |-> cache, tiles |-> tiles, touched |-> {}, replaced |-> FALSE],
                 a, FALSE, ShopW, ShopH)

\* The generation of Map.loadMap is over.
IsGenerated == \A i \in 1..Len(HerdGenerated) : HerdGenerated[i] \in Range(sprites)

\* Map.animalGeneration with n = 1, one pass of a loop: the herbivore first,
\* then the carnivore, each of a species and at a place drawn at random.
AnimalGeneration(i, id, p) ==
  /\ Len(sprites) = i - 1 /\ ~IsGenerated
  /\ ClassOf(id) = (IF i = 1 THEN "herbivore" ELSE "carnivore")
  /\ \E st \in {HerdLoaded(HerdGenerated[i], CreateAnimal(id, p, 0))} :
        /\ cache' = st.cache
        /\ cacheAge' = AgeAfter(cacheAge, 0, st.touched)
        /\ attr' = st.attr
        /\ sprites' = Append(sprites, HerdGenerated[i])
  /\ last' = [op |-> "generate", sprite |-> HerdGenerated[i]]
  /\ UNCHANGED <<roadVars, tourVars, shopVars, restVars>>

\* SafariModel.buyHerbivore and SafariModel.buyCarnivore for the species id;
\* g is the number Math.random gives when no animal of the species is in
\* view, drawn again while it is a key of the registry.
BuySpecies(a, id, p, g) ==
  /\ IsGenerated /\ a \notin DOMAIN attr
  /\ \A i \in 1..Len(groups) : groups[i].group # g
  /\ \E st \in {HerdLoaded(a, CreateAnimal(id, p, 0))} :
      \E same \in {SelectSeq(GetVisibleSprites(sprites, st.attr, a),
                             LAMBDA b : st.attr[b].species = id)} :
       \E grp \in {IF same # <<>> THEN st.attr[Head(same)].group ELSE g} :
         /\ cache' = st.cache
         /\ cacheAge' = AgeAfter(cacheAge, 0, st.touched)
         /\ IF CanBuy(ClassOf(id))
            THEN /\ balance' = balance - Price[ClassOf(id)]
                 /\ attr' = [st.attr EXCEPT ![a].group = grp]
                 /\ groups' = AddGroup(groups, grp, id)
                 /\ sprites' = Append(sprites, a)
            ELSE UNCHANGED <<balance, attr, groups, sprites>>
  /\ last' = [op |-> "buy", what |-> id, tooDear |-> ~CanBuy(ClassOf(id))]
  /\ UNCHANGED <<roadVars, tourVars, restVars>>

InitHerd ==
  /\ IdleRoads(ShopW, ShopH)
  /\ IdleAgents
  /\ IdleCache
  /\ IdleTours
  /\ IdleShop
  /\ IdleGame
  /\ IdleLoads
  /\ last = NoOp

NextHerd ==
  \/ \E i \in 1..Len(HerdGenerated), id \in HerdIds, p \in ShopPositions :
        AnimalGeneration(i, id, p)
  \/ \E a \in HerdBought, id \in HerdIds, p \in ShopPositions, g \in HerdGroupIds :
        BuySpecies(a, id, p, g)

SpecHerd == InitHerd /\ [][NextHerd]_vars

\* The species the registry records for group g; the first entry counts, as
\* in spawnGroupOffspring's find.
RegisteredAs(g) ==
  groups[CHOOSE i \in 1..Len(groups) :
            groups[i].group = g /\ \A j \in 1..(i - 1) : groups[j].group # g].id

IsRegistered(g) == \E i \in 1..Len(groups) : groups[i].group = g

\* C39: every animal of the roster whose group has an entry in the registry
\* is of the species the registry records for the group, the generated
\* animals of group 0 included.
C39_GroupOfOneSpecies ==
  \A a \in Range(sprites) :
     IsRegistered(attr[a].group) => attr[a].species = RegisteredAs(attr[a].group)

\* The same for the animals of the groups other than 0.
NonZeroGroupsOfOneSpecies ==
  \A a \in Range(sprites) :
     (attr[a].group # 0 /\ IsRegistered(attr[a].group))
        => attr[a].species = RegisteredAs(attr[a].group)

\* A purchase has joined the group of a generated animal, and the other
\* generated animal is of another species.
MixedGroupZero ==
  /\ last.op = "buy" /\ IsRegistered(0)
  /\ \E a \in HerdBought \cap Range(sprites) :
        attr[a].group = 0 /\ attr[a].species = attr["g1"].species
  /\ attr["g2"].species # RegisteredAs(0)

----------------------------------------------------------------------------
(***************************************************************************)
(* C40: the balance under purchases, chips, sales, income, salaries and    *)
(* the losing check together.                                              *)
(***************************************************************************)
PurseAgents == {"r", "h1", "c"}
PursePlaces == {<<0, 0>>}
PurseCells == {<<0, 0>>}
PurseDts == {0, DayLen}

\* sellPrice of the definition data, in the units of the balance.
SellPrice == [herbivore |-> 1, carnivore |-> 2]

\* SafariModel.sellAnimalAt
ShopSellAnimalAt(c) ==
  \E animal \in {GetTopAnimal(GetSpritesAt(c))} :
     /\ animal # "none" => balance + SellPrice[attr[animal].kind] <= MaxBalance
     /\ balance' = IF animal # "none" THEN balance + SellPrice[attr[animal].kind]
                   ELSE balance
     /\ sprites' = IF animal # "none" THEN RemoveSprite(sprites, animal) ELSE sprites
     /\ last' = [op |-> "sell", who |-> animal]
     /\ UNCHANGED <<roadVars, attr, cacheVars, tourVars, groups, restVars>>

InitPurse ==
  /\ IdleRoads(ShopW, ShopH)
  /\ IdleAgents
  /\ IdleCache
  /\ IdleTours
  /\ IdleShop
  /\ IdleGame
  /\ IdleLoads
  /\ last = NoOp

NextPurse ==
  \/ \E kind \in BuyableKinds, c \in PurseCells :
        ShopBuyTile(kind, c) /\ UNCHANGED restVars
  \/ \E a \in PurseAgents, p \in PursePlaces : BuyRanger(a, p) /\ UNCHANGED restVars
  \/ \E a \in PurseAgents, p \in PursePlaces, g \in {1} :
        BuyAnimal(a, p, g) /\ UNCHANGED restVars
  \/ \E c \in PurseCells : ChipAnimalAt(c) /\ UNCHANGED restVars
  \/ \E c \in PurseCells : ShopSellAnimalAt(c)
  \/ \E ndt \in PurseDts, dead \in {{}, {"r"}, {"c"}}, income \in 0..1 :
        DayStep(ndt, dead, income, FALSE)

SpecPurse == InitPurse /\ [][NextPurse]_vars

\* C40: the balance is never negative.
C40_BalanceNeverNegative == balance >= 0

\* A purchase was refused because its price is more than the balance.
C40_Witness ==
  /\ last.op = "buy" /\ last.tooDear
  /\ balance < Price[last.what]

\* The salaries of a day were more than the balance at the daily check.
SalaryCapped ==
  /\ last.op = "step" /\ last.checked
  /\ balance = 0 /\ GetRangerSalary(sprites, attr) > 0

====
